---------------------------- MODULE Spec2Model ----------------------------
(***************************************************************************)
(* Render core of the video editor: the queued render worker               *)
(* (server/src/config.js, worker part: processRenderJob, workerLoop,       *)
(* setupShutdownHandlers, startWorker, stopWorker), the queue wrapper      *)
(* (server/src/queue.js) and the supervised encoder with its progress      *)
(* reporter (server/src/video.js execFfmpegWithProgress / execCmd and      *)
(* server/src/cache.js ensure / cacheSet).                                 *)
(*                                                                         *)
(* Also the API server's progress channel and synchronous render handler   *)
(* (server/src/routes.js) and the timeline compiler (server/src/video.js   *)
(* buildFfmpegCommand).                                                    *)
(*                                                                         *)
(* The specifications of this module share its variables:                  *)
(*   Spec          the worker process, the render queue and the Job records*)
(*   SpecShutdown  the same worker with its shutdown timer kept firing     *)
(*   SpecExec      one supervised encoder run and the progress store       *)
(*   SpecSse       one client of the progress channel                      *)
(*   SpecSync      the synchronous render handler                          *)
(*   SpecCompile   calls of the compiler on a bounded timeline             *)
(*   SpecRetry     retries of a dead-lettered job (retryFailedJob)         *)
(*   SpecFleet     several worker processes on one render queue            *)
(***************************************************************************)
EXTENDS Integers, Sequences, FiniteSets, TLC

(***************************************************************************)
(* Bounds of the model                                                     *)
(***************************************************************************)
\* number of render jobs that were enqueued
NumJobs == 1
\* largest value of the MAX_CONCURRENT_JOBS environment variable explored
MaxCapacity == 1
\* deliveries after which the queue's redrive policy diverts a message
MaxReceiveCount == 2
\* stderr data events of one encoder run
MaxChunks == 2
\* largest time marker the encoder prints
MaxTime == 2
\* one-second waits of the shutdown handler before it gives up (30 in the
\* source, scaled)
ShutdownWaitTicks == 2
\* interval callbacks followed on one connection of the progress channel
MaxPolls == 1
\* render requests handled one after the other
MaxRenders == 3
\* tracks of a timeline
MaxTracks == 2
\* calls of the compiler on one input
MaxCalls == 2
\* calls of retryFailedJob for one job
MaxRetries == 2
\* worker processes that poll the render queue
NumWorkers == 2
\* the visibility timeout of a received message (900 s in the source, scaled)
VisibilityTicks == 2
\* the longest encode, in the same unit
MaxEncodeTicks == 3

Jobs == 1..NumJobs
NoJob == 0
ExitCodes == {0, 1}
StderrTexts == {"warn", "fatal"}

VARIABLES
    \* ---- worker process (config.js, worker part) ----
    MAX_CONCURRENT_JOBS,  \* parseInt(process.env.MAX_CONCURRENT_JOBS || '1')
    useS3,                \* config.features.useS3
    activeJobs,
    workerRunning,
    shutdownRequested,
    loopPc,               \* where workerLoop is suspended
    jobPc,                \* where the running processRenderJob is suspended
    cur,                  \* job id of the message being processed
    err,                  \* the error caught by processRenderJob's catch
    att,                  \* what the latest processRenderJob call did so far
    shutdownPc,           \* the signal handler's coroutine
    waited,               \* seconds the signal handler has waited
    exited,               \* process.exit was called
    \* ---- queue collaborator (SQS) and Job records ----
    msgState,             \* per job message: visible / inflight / deleted / dlq
    receiveCount,         \* ApproximateReceiveCount per message
    failures,             \* per job: processRenderJob calls that ended by throwing
    record,               \* persisted Job record per job id
    \* ---- one supervised encoder run (video.js, cache.js) ----
    cacheEnabled,         \* config.cache.enabled
    hasJobId,             \* execFfmpegWithProgress was given a jobId
    childPc,              \* the child process: none / running / spawnError / closed
    closeCode,            \* the code of the close event
    lastTime,             \* the latest time marker the encoder printed
    nChunks,              \* stderr data events delivered
    stderrAcc,            \* let stderr = '' ... stderr += s
    client,               \* cache.js: the module's client (0 is null)
    importWait,           \* cacheSet calls suspended in await import('memjs')
    conn,                 \* per created client: its c.set calls in flight
    store,                \* value held by the progress store under job:<jobId>
    published,            \* every value that landed under job:<jobId>, in order
    settled,              \* the promise of execFfmpegWithProgress
    result,               \* what it resolved or rejected with
    closePc,              \* the close handler: none / awaiting / done / died
    cacheSetCalls,        \* calls of cacheSet
    setsIssued,           \* calls of c.set
    cacheThrew,           \* some cacheSet call threw
    cmdPc,                \* a plain execCmd run: none / running / resolved / rejected
    cmdResult,            \* what execCmd resolved or rejected with
    \* ---- one client of the progress channel (routes.js /jobs/:id/events) ----
    ssePc,                \* the route handler: none / get / gotState / open
    alive,                \* let alive = true; the close handler clears it
    state,                \* const state = await cacheGet(...) (NoValue is null)
    heldAtRead,           \* what the store held when that first read reached it
    iv,                   \* the interval: none / set / cleared
    polls,                \* the interval callbacks of this connection, in order
    sent,                 \* the events written to this connection, in order
    reconnected,          \* this connection is not the client's first
    \* ---- the synchronous render handler (routes.js POST /projects/:id/render) ----
    renderPc,             \* the handler: none / build / encode / save
    outId,                \* the render being handled (0: none yet)
    userJobs,             \* the Job record persisted per outId
    responses,            \* the HTTP response given per render
    \* ---- one call of the compiler (video.js buildFfmpegCommand) ----
    compPc,               \* idle / input / compiled
    tracks,               \* project.tracks
    files,                \* the resolved files
    preset,               \* options.preset
    args,                 \* the argument vector returned
    calls,                \* calls of buildFfmpegCommand made on these inputs
    prevArgs,             \* what the call before the latest returned
    \* ---- retries from the dead-letter queue (queue.js retryFailedJob) ----
    RENDER_QUEUE_URL,     \* the render queue is configured (not null)
    DLQ_URL,              \* the dead-letter queue is configured (not null)
    mainQueue,            \* the message bodies of the job on the render queue
    dlq,                  \* the message bodies of the job on the dead-letter queue
    retryPc,              \* none / idle / enqueue / delete / returned / threw
    jobData,              \* the job passed to retryFailedJob
    updatedJob,
    retryResult,          \* what retryFailedJob returned
    sentBody,             \* the body of the message the latest call sent
    retries,              \* calls of retryFailedJob so far
    dlqAtCall,            \* the dead-letter queue when the latest call began
    enqueued,             \* the latest call has put its message on the render queue
    removed,              \* the latest call has deleted the dead-letter message
    \* ---- a fleet of worker processes on one render queue ----
    fleetPc,              \* per worker: none / poll / processing
    encodeLeft,           \* per worker: what remains of its encode
    qState,               \* the job's message: visible / inflight / deleted
    qTimer,               \* time since the message was last received
    qReceives,            \* deliveries of the message so far
    receiver              \* the worker the message was last delivered to (0: none)

workerVars == <<MAX_CONCURRENT_JOBS, useS3, activeJobs, workerRunning,
                shutdownRequested, loopPc, jobPc, cur, err, att,
                shutdownPc, waited, exited, msgState, receiveCount, failures,
                record>>

execVars == <<cacheEnabled, hasJobId, childPc, closeCode, lastTime, nChunks,
              stderrAcc, client, importWait, conn, store, published, settled,
              result, closePc, cacheSetCalls, setsIssued, cacheThrew,
              cmdPc, cmdResult>>

sseVars == <<ssePc, alive, state, heldAtRead, iv, polls, sent, reconnected>>

syncVars == <<renderPc, outId, userJobs, responses>>

\* the state of the API server's request handlers
compVars == <<compPc, tracks, files, preset, args, calls, prevArgs>>
retryVars == <<RENDER_QUEUE_URL, DLQ_URL, mainQueue, dlq, retryPc, jobData,
               updatedJob, retryResult, sentBody, retries, dlqAtCall, enqueued,
               removed>>
fleetVars == <<fleetPc, encodeLeft, qState, qTimer, qReceives, receiver>>
apiVars == <<sseVars, syncVars, compVars, retryVars, fleetVars>>
notSse == <<workerVars, execVars, syncVars, compVars, retryVars, fleetVars>>
notSync == <<workerVars, execVars, sseVars, compVars, retryVars, fleetVars>>
notComp == <<workerVars, execVars, sseVars, syncVars, retryVars, fleetVars>>
notRetry == <<workerVars, execVars, sseVars, syncVars, compVars, fleetVars>>
notFleet == <<workerVars, execVars, sseVars, syncVars, compVars, retryVars>>

vars == <<workerVars, execVars, apiVars>>

(***************************************************************************)
(* Errors.  An Error is modelled by its message: the kind, and for the     *)
(* encoder error the exit code and the captured stderr the message holds.  *)
(***************************************************************************)
NoError == [kind |-> "none", code |-> 0, stderr |-> ""]
PlainError(k) == [kind |-> k, code |-> 0, stderr |-> ""]

\* mutant: the error message leaves the captured stderr out
EncodeErrorDropsStderr(code, stderr) == [kind |-> "ffmpeg failed", code |-> code, stderr |-> ""]

\* new Error(`ffmpeg failed (${code}): ${stderr}`)
EncodeError(code, stderr) == [kind |-> "ffmpeg failed", code |-> code, stderr |-> stderr]

\* mutant: the close handler resolves whatever the code
CloseAlwaysResolves(code) == "resolve"

\* the close handler of the encoder: resolve on code 0, reject otherwise
CloseOutcome(code) == IF code = 0 THEN "resolve" ELSE "reject"

(***************************************************************************)
(* Job records (storage.js saveUserJob: the record written for a job id)   *)
(***************************************************************************)
Rec(status, e) == [status |-> status, error |-> e]

saveUserJob(recs, j, status, e) == [recs EXCEPT ![j] = Rec(status, e)]

NewAttempt(j) ==
    [job |-> j, exit |-> -1, stderr |-> "", uploadTried |-> FALSE,
     uploaded |-> FALSE, savedCompleted |-> FALSE, deleteCalled |-> FALSE,
     deleted |-> FALSE, failSaveTried |-> FALSE, failSaveOk |-> FALSE,
     failSaveText |-> NoError, err |-> NoError, outcome |-> "running"]

NoAttempt == [NewAttempt(NoJob) EXCEPT !.outcome = "none"]

(***************************************************************************)
(* Initial state: the module is loaded, the worker is not started, every   *)
(* job was enqueued and its record says queued.                            *)
(***************************************************************************)
WorkerInit ==
    /\ MAX_CONCURRENT_JOBS \in 0..MaxCapacity
    /\ useS3 \in BOOLEAN
    /\ activeJobs = 0
    /\ workerRunning = FALSE
    /\ shutdownRequested = FALSE
    /\ loopPc = "idle"
    /\ jobPc = "none"
    /\ cur = NoJob
    /\ err = NoError
    /\ att = NoAttempt
    /\ shutdownPc = "none"
    /\ waited = 0
    /\ exited = FALSE
    /\ msgState = [j \in Jobs |-> "visible"]
    /\ receiveCount = [j \in Jobs |-> 0]
    /\ failures = [j \in Jobs |-> 0]
    /\ record = [j \in Jobs |-> Rec("queued", NoError)]

queueVars == <<msgState, receiveCount, failures>>
configVars == <<MAX_CONCURRENT_JOBS, useS3>>
shutdownVars == <<shutdownRequested, shutdownPc, waited, exited>>
jobVars == <<jobPc, cur, err, att>>

(***************************************************************************)
(* startWorker / workerLoop                                                *)
(***************************************************************************)
\* startWorker: refuses when the loop runs, else installs the signal
\* handlers and enters workerLoop, which sets workerRunning at once
StartWorker ==
    /\ ~exited
    /\ ~workerRunning
    /\ loopPc \in {"idle", "stopped"}
    /\ workerRunning' = TRUE
    /\ loopPc' = "top"
    /\ UNCHANGED <<configVars, activeJobs, jobVars, shutdownVars, queueVars, record>>
    /\ UNCHANGED <<execVars, apiVars>>

\* mutant: the capacity test is off by one
AtCapacityOffByOne(a, max) == a > max

\* if (activeJobs >= MAX_CONCURRENT_JOBS)
AtCapacity(a, max) == a >= max

\* the head of the while loop: leave on shutdown, sleep at capacity, else
\* ask the queue for its depth
LoopTop ==
    /\ ~exited
    /\ loopPc = "top"
    /\ IF shutdownRequested
         THEN /\ loopPc' = "stopped"
              /\ workerRunning' = FALSE
         ELSE /\ loopPc' = IF AtCapacity(activeJobs, MAX_CONCURRENT_JOBS)
                             THEN "sleepCapacity" ELSE "depth"
              /\ UNCHANGED workerRunning
    /\ UNCHANGED <<configVars, activeJobs, jobVars, shutdownVars, queueVars, record>>
    /\ UNCHANGED <<execVars, apiVars>>

\* a setTimeout of the loop fires: the capacity sleep or the error backoff
LoopSleepDone ==
    /\ ~exited
    /\ loopPc \in {"sleepCapacity", "backoff"}
    /\ loopPc' = "top"
    /\ UNCHANGED <<configVars, activeJobs, workerRunning, jobVars, shutdownVars, queueVars, record>>
    /\ UNCHANGED <<execVars, apiVars>>

\* mutant: an error of the loop body escapes workerLoop
LoopErrorEscapes == "crashed"

\* where an error thrown in the loop body takes workerLoop: its catch logs
\* it and awaits the 5 s backoff inside the while loop
OnLoopError == "backoff"

\* await getQueueDepth(): returns, or throws into the loop's catch
LoopDepth ==
    /\ ~exited
    /\ loopPc = "depth"
    /\ \E ok \in BOOLEAN : loopPc' = IF ok THEN "receive" ELSE OnLoopError
    /\ UNCHANGED <<configVars, activeJobs, workerRunning, jobVars, shutdownVars, queueVars, record>>
    /\ UNCHANGED <<execVars, apiVars>>

\* Math.min(MAX_CONCURRENT_JOBS - activeJobs, 1)
MaxMessages(max, a) == IF max - a < 1 THEN max - a ELSE 1

\* await receiveRenderJobs(): throws, or returns no message
LoopReceiveNone ==
    /\ ~exited
    /\ loopPc = "receive"
    /\ \E ok \in BOOLEAN : loopPc' = IF ok THEN "top" ELSE OnLoopError
    /\ UNCHANGED <<configVars, activeJobs, workerRunning, jobVars, shutdownVars, queueVars, record>>
    /\ UNCHANGED <<execVars, apiVars>>

\* await receiveRenderJobs() returns one message; the for loop calls
\* processRenderJob(message), which runs up to its first await
LoopReceiveJob(j) ==
    /\ ~exited
    /\ loopPc = "receive"
    /\ MaxMessages(MAX_CONCURRENT_JOBS, activeJobs) >= 1
    /\ msgState[j] = "visible"
    /\ receiveCount[j] < MaxReceiveCount
    /\ msgState' = [msgState EXCEPT ![j] = "inflight"]
    /\ receiveCount' = [receiveCount EXCEPT ![j] = @ + 1]
    /\ activeJobs' = activeJobs + 1
    /\ cur' = j
    /\ att' = NewAttempt(j)
    /\ err' = NoError
    /\ jobPc' = "saveProcessing"
    /\ loopPc' = "process"
    /\ UNCHANGED <<configVars, workerRunning, shutdownVars, failures, record>>
    /\ UNCHANGED <<execVars, apiVars>>

(***************************************************************************)
(* processRenderJob                                                        *)
(***************************************************************************)
\* a step of the try block threw: control goes to the catch block
Throw(e) ==
    /\ err' = e
    /\ jobPc' = "catchSave"

\* await saveUserJob(..., status: 'processing')
JobSaveProcessing ==
    /\ ~exited
    /\ jobPc = "saveProcessing"
    /\ \/ /\ record' = saveUserJob(record, cur, "processing", NoError)
          /\ jobPc' = "build"
          /\ UNCHANGED err
       \/ /\ Throw(PlainError("db"))
          /\ UNCHANGED record
    /\ UNCHANGED <<configVars, activeJobs, workerRunning, loopPc, cur, att, shutdownVars, queueVars>>
    /\ UNCHANGED <<execVars, apiVars>>

\* await buildFfmpegCommand(project, files, options)
JobBuild ==
    /\ ~exited
    /\ jobPc = "build"
    /\ \/ /\ jobPc' = "encode"
          /\ UNCHANGED err
       \/ Throw(PlainError("compile"))
    /\ UNCHANGED <<configVars, activeJobs, workerRunning, loopPc, cur, att, shutdownVars, queueVars, record>>
    /\ UNCHANGED <<execVars, apiVars>>

\* mutant: the upload is skipped although S3 is configured
AfterEncodeSkipsUpload(s3) == "saveCompleted"

\* the step after a successful encode: upload only when S3 is configured
AfterEncode(s3) == IF s3 THEN "upload" ELSE "saveCompleted"

\* await execFfmpegWithProgress(...): the encoder ran and closed with a code
JobEncode(code, text) ==
    /\ ~exited
    /\ jobPc = "encode"
    /\ att' = [att EXCEPT !.exit = code, !.stderr = text]
    /\ IF CloseOutcome(code) = "resolve"
         THEN /\ jobPc' = AfterEncode(useS3)
              /\ UNCHANGED err
         ELSE Throw(EncodeError(code, text))
    /\ UNCHANGED <<configVars, activeJobs, workerRunning, loopPc, cur, shutdownVars, queueVars, record>>
    /\ UNCHANGED <<execVars, apiVars>>

\* await execFfmpegWithProgress(...): the encoder could not be started
JobEncodeSpawnError ==
    /\ ~exited
    /\ jobPc = "encode"
    /\ Throw(PlainError("spawn"))
    /\ UNCHANGED <<configVars, activeJobs, workerRunning, loopPc, cur, att, shutdownVars, queueVars, record>>
    /\ UNCHANGED <<execVars, apiVars>>

\* await uploadToS3(...)
JobUpload ==
    /\ ~exited
    /\ jobPc = "upload"
    /\ \/ /\ att' = [att EXCEPT !.uploadTried = TRUE, !.uploaded = TRUE]
          /\ jobPc' = "saveCompleted"
          /\ UNCHANGED err
       \/ /\ att' = [att EXCEPT !.uploadTried = TRUE]
          /\ Throw(PlainError("upload"))
    /\ UNCHANGED <<configVars, activeJobs, workerRunning, loopPc, cur, shutdownVars, queueVars, record>>
    /\ UNCHANGED <<execVars, apiVars>>

\* await saveUserJob(..., status: 'completed')
JobSaveCompleted ==
    /\ ~exited
    /\ jobPc = "saveCompleted"
    /\ \/ /\ record' = saveUserJob(record, cur, "completed", NoError)
          /\ att' = [att EXCEPT !.savedCompleted = TRUE]
          /\ jobPc' = "delete"
          /\ UNCHANGED err
       \/ /\ Throw(PlainError("db"))
          /\ UNCHANGED <<record, att>>
    /\ UNCHANGED <<configVars, activeJobs, workerRunning, loopPc, cur, shutdownVars, queueVars>>
    /\ UNCHANGED <<execVars, apiVars>>

\* await deleteRenderJob(receiptHandle): the request takes effect at the queue,
\* or the call throws
JobDelete ==
    /\ ~exited
    /\ jobPc = "delete"
    /\ \/ /\ msgState' = [msgState EXCEPT ![cur] = IF @ = "dlq" THEN @ ELSE "deleted"]
          /\ att' = [att EXCEPT !.deleteCalled = TRUE, !.deleted = TRUE]
          /\ jobPc' = "deleteReturn"
          /\ UNCHANGED err
       \/ /\ att' = [att EXCEPT !.deleteCalled = TRUE]
          /\ Throw(PlainError("sqs"))
          /\ UNCHANGED msgState
    /\ UNCHANGED <<configVars, activeJobs, workerRunning, loopPc, cur, shutdownVars, receiveCount, failures, record>>
    /\ UNCHANGED <<execVars, apiVars>>

\* the queue's answer resumes processRenderJob: activeJobs-- and return; the
\* for loop of workerLoop ends and the next iteration starts
JobDeleteReturn ==
    /\ ~exited
    /\ jobPc = "deleteReturn"
    /\ att' = [att EXCEPT !.outcome = "returned"]
    /\ activeJobs' = activeJobs - 1
    /\ jobPc' = "none"
    /\ loopPc' = "top"
    /\ UNCHANGED <<configVars, workerRunning, cur, err, shutdownVars, queueVars, record>>
    /\ UNCHANGED <<execVars, apiVars>>

\* mutant: the catch block swallows the error
CatchSwallows == "returned"

\* what processRenderJob does with the caught error after the failed save
CatchSettles == "threw"

\* mutant: the catch block acknowledges the message
CatchDeletesMessage(m) == "deleted"

\* what the catch block does to the queue message: it never calls
\* deleteRenderJob
CatchKeepsMessage(m) == m

\* the catch block: await saveUserJob(..., status: 'failed', error:
\* error.message) inside its own try/catch, activeJobs--, throw error; the
\* loop's catch then starts the 5 s backoff
JobCatch ==
    /\ ~exited
    /\ jobPc = "catchSave"
    /\ \E ok \in BOOLEAN :
         /\ record' = IF ok THEN saveUserJob(record, cur, "failed", err) ELSE record
         /\ att' = [att EXCEPT !.failSaveTried = TRUE, !.failSaveOk = ok,
                               !.failSaveText = err, !.err = err,
                               !.outcome = CatchSettles]
    /\ activeJobs' = activeJobs - 1
    /\ jobPc' = "none"
    /\ loopPc' = IF CatchSettles = "threw" THEN OnLoopError ELSE "top"
    /\ msgState' = [msgState EXCEPT ![cur] = CatchKeepsMessage(@)]
    /\ failures' = [failures EXCEPT ![cur] = IF CatchSettles = "threw" THEN @ + 1 ELSE @]
    /\ UNCHANGED <<configVars, workerRunning, cur, err, shutdownVars, receiveCount>>
    /\ UNCHANGED <<execVars, apiVars>>

(***************************************************************************)
(* Shutdown                                                                *)
(***************************************************************************)
\* stopWorker()
StopWorker ==
    /\ ~exited
    /\ ~shutdownRequested
    /\ shutdownRequested' = TRUE
    /\ UNCHANGED <<configVars, activeJobs, workerRunning, loopPc, jobVars,
                   shutdownPc, waited, exited, queueVars, record>>
    /\ UNCHANGED <<execVars, apiVars>>

\* mutant: the handler does not wait for jobs in flight
KeepWaitingIgnoresJobs(a, w) == FALSE

\* the wait loop's condition of the signal handler
KeepWaiting(a, w) == a > 0 /\ w < ShutdownWaitTicks

\* SIGTERM / SIGINT: set the flag, then exit at once or start waiting
Signal ==
    /\ ~exited
    /\ loopPc # "idle"
    /\ shutdownPc = "none"
    /\ shutdownRequested' = TRUE
    /\ waited' = 0
    /\ IF KeepWaiting(activeJobs, 0)
         THEN shutdownPc' = "waiting" /\ UNCHANGED exited
         ELSE shutdownPc' = "done" /\ exited' = TRUE
    /\ UNCHANGED <<configVars, activeJobs, workerRunning, loopPc, jobVars, queueVars, record>>
    /\ UNCHANGED <<execVars, apiVars>>

\* one second of the handler's wait has passed and it rechecks
ShutdownTick ==
    /\ ~exited
    /\ shutdownPc = "waiting"
    /\ waited' = waited + 1
    /\ IF KeepWaiting(activeJobs, waited + 1)
         THEN UNCHANGED <<shutdownPc, exited>>
         ELSE shutdownPc' = "done" /\ exited' = TRUE
    /\ UNCHANGED <<configVars, activeJobs, workerRunning, loopPc, jobVars,
                   shutdownRequested, queueVars, record>>
    /\ UNCHANGED <<execVars, apiVars>>

(***************************************************************************)
(* The queue collaborator                                                  *)
(***************************************************************************)
\* VisibilityTimeout: 900 elapsed for an undeleted message: it becomes
\* visible again
VisibilityTimeout(j) ==
    /\ msgState[j] = "inflight"
    /\ msgState' = [msgState EXCEPT ![j] = "visible"]
    /\ UNCHANGED <<configVars, activeJobs, workerRunning, loopPc, jobVars,
                   shutdownVars, receiveCount, failures, record>>
    /\ UNCHANGED <<execVars, apiVars>>

\* the queue's redrive policy: a visible message whose delivery count is
\* used up is diverted to the dead-letter queue instead of being delivered
Redrive(j) ==
    /\ msgState[j] = "visible"
    /\ receiveCount[j] >= MaxReceiveCount
    /\ msgState' = [msgState EXCEPT ![j] = "dlq"]
    /\ UNCHANGED <<configVars, activeJobs, workerRunning, loopPc, jobVars,
                   shutdownVars, receiveCount, failures, record>>
    /\ UNCHANGED <<execVars, apiVars>>

(***************************************************************************)
(* The supervised encoder run: execFfmpegWithProgress, execCmd (video.js)  *)
(* and the progress store client: ensure, cacheSet (cache.js)              *)
(***************************************************************************)
\* a stderr chunk is the sequence of time markers its text holds; the
\* encoder prints non-decreasing markers
ChunksFrom(t) ==
    {<<>>} \cup {<<a>> : a \in t..MaxTime}
           \cup {<<a, b>> : <<a, b>> \in {p \in (t..MaxTime) \X (t..MaxTime) : p[1] <= p[2]}}

\* s.match(/time=([\d:.]+)/): the first marker of the chunk, 0 for null
Match(chunk) == IF chunk = <<>> THEN 0 ELSE chunk[1]

NoValue == [status |-> "none", time |-> 0, code |-> 0]
\* { status: 'running', time: m[1], updatedAt }
Running(t) == [status |-> "running", time |-> t, code |-> 0]
\* { status: code === 0 ? 'done' : 'error', code, updatedAt }
Terminal(code) == [status |-> IF code = 0 THEN "done" ELSE "error", time |-> 0, code |-> code]

\* resolve({ code, stderr })
ResolveValue(code, stderr) == [kind |-> "ok", code |-> code, stderr |-> stderr]

\* the code of the close event that follows a failed spawn (a negative errno)
SpawnFailCodes == {-2}

\* the state of an encoder run before execFfmpegWithProgress is called
ExecInit ==
    /\ cacheEnabled \in BOOLEAN
    /\ hasJobId \in BOOLEAN
    /\ childPc = "none"
    /\ closeCode = -1
    /\ lastTime = 1
    /\ nChunks = 0
    /\ stderrAcc = <<>>
    /\ client = 0
    /\ importWait = <<>>
    /\ conn = <<>>
    /\ store = NoValue
    /\ published = <<>>
    /\ settled = "none"
    /\ result = NoError
    /\ closePc = "none"
    /\ cacheSetCalls = 0
    /\ setsIssued = 0
    /\ cacheThrew = FALSE
    /\ cmdPc = "none"
    /\ cmdResult = NoError

\* the encoder run is left out of the worker specification
ExecIdle ==
    /\ ExecInit
    /\ cacheEnabled = FALSE
    /\ hasJobId = FALSE

cacheVars == <<client, importWait, conn, store, published, cacheSetCalls,
               setsIssued, cacheThrew>>
childVars == <<childPc, closeCode, lastTime, nChunks, stderrAcc>>
promiseVars == <<settled, result, closePc>>
cmdVars == <<cmdPc, cmdResult>>
execConfig == <<cacheEnabled, hasJobId>>

\* execFfmpegWithProgress(args, outPath, jobId): spawn and install handlers
ExecStart ==
    /\ childPc = "none"
    /\ childPc' = "running"
    /\ settled' = "pending"
    /\ UNCHANGED <<closeCode, lastTime, nChunks, stderrAcc, result, closePc,
                   cacheVars, cmdVars, execConfig, workerVars, apiVars>>

\* what ensure() does for a caller: null when the cache is disabled, a wait
\* for import('memjs') when no client exists yet, else the client
ensure == IF ~cacheEnabled THEN "null" ELSE IF client = 0 THEN "import" ELSE "client"

\* cacheSet(key, value, ttl) up to the point where it is suspended: returns
\* false when ensure() gives null, waits for the import, or issues c.set on
\* the client it was given
CacheSetCall(v) ==
    /\ cacheSetCalls' = cacheSetCalls + 1
    /\ IF ensure = "null"
         THEN UNCHANGED <<importWait, conn, setsIssued>>
         ELSE IF ensure = "import"
                THEN /\ importWait' = Append(importWait, v)
                     /\ UNCHANGED <<conn, setsIssued>>
                ELSE /\ conn' = [conn EXCEPT ![client] = Append(@, v)]
                     /\ setsIssued' = setsIssued + 1
                     /\ UNCHANGED importWait
    /\ UNCHANGED <<client, store, published, cacheThrew>>

\* mutant: cacheSet lets the error of ensure() or c.set escape
CacheSetOnErrorThrows == "threw"

\* what cacheSet returns when ensure() or c.set throws: catch { return false }
CacheSetOnError == "false"

\* the rest of the close handler after its cacheSet: resolve({code, stderr})
\* on code 0, reject(new Error(...)) otherwise; settling twice is a no-op
Settle(code) ==
    /\ settled' = IF settled # "pending" THEN settled
                  ELSE IF CloseOutcome(code) = "resolve" THEN "resolved" ELSE "rejected"
    /\ result' = IF settled # "pending" THEN result
                 ELSE IF CloseOutcome(code) = "resolve"
                        THEN ResolveValue(code, stderrAcc)
                        ELSE EncodeError(code, stderrAcc)

\* the close handler resumes after await cacheSet(...) gave res
CloseResume(res) ==
    IF res = "threw"
      THEN closePc' = "died" /\ UNCHANGED <<settled, result>>
      ELSE closePc' = "done" /\ Settle(closeCode)

\* child.stderr.on('data', async d => ...): accumulate, parse, publish
DataChunk(chunk) ==
    /\ childPc = "running"
    /\ nChunks < MaxChunks
    /\ nChunks' = nChunks + 1
    /\ stderrAcc' = stderrAcc \o chunk
    /\ lastTime' = IF chunk = <<>> THEN lastTime ELSE chunk[Len(chunk)]
    /\ IF Match(chunk) # 0 /\ hasJobId
         THEN CacheSetCall(Running(Match(chunk)))
         ELSE UNCHANGED cacheVars
    /\ UNCHANGED <<childPc, closeCode, promiseVars, cmdVars, execConfig, workerVars, apiVars>>

\* child.on('error', error => reject(error)): the encoder did not start
SpawnFails ==
    /\ childPc = "running"
    /\ nChunks = 0
    /\ childPc' = "spawnError"
    /\ settled' = "rejected"
    /\ result' = PlainError("spawn")
    /\ UNCHANGED <<closeCode, lastTime, nChunks, stderrAcc, closePc, cacheVars,
                   cmdVars, execConfig, workerVars, apiVars>>

\* child.on('close', async code => ...) up to its await
Close(code) ==
    /\ \/ childPc = "running" /\ code \in ExitCodes
       \/ childPc = "spawnError" /\ code \in SpawnFailCodes
    /\ childPc' = "closed"
    /\ closeCode' = code
    /\ IF hasJobId
         THEN /\ CacheSetCall(Terminal(code))
              /\ IF ensure = "null"
                   THEN closePc' = "done" /\ Settle(code)
                   ELSE closePc' = "awaiting" /\ UNCHANGED <<settled, result>>
         ELSE /\ closePc' = "done"
              /\ Settle(code)
              /\ UNCHANGED cacheVars
    /\ UNCHANGED <<lastTime, nChunks, stderrAcc, cmdVars, execConfig, workerVars, apiVars>>

IsTerminal(v) == v.status # "running"
HasTerminal(q) == \E i \in 1..Len(q) : IsTerminal(q[i])

\* import('memjs') is fulfilled: every suspended ensure() creates a client
\* of its own (client = lib.Client.create(...)) and its cacheSet issues c.set
ImportResolves ==
    /\ importWait # <<>>
    /\ conn' = conn \o [i \in 1..Len(importWait) |-> <<importWait[i]>>]
    /\ client' = Len(conn) + Len(importWait)
    /\ setsIssued' = setsIssued + Len(importWait)
    /\ importWait' = <<>>
    /\ UNCHANGED <<store, published, cacheSetCalls, cacheThrew, childVars,
                   promiseVars, cmdVars, execConfig, workerVars, apiVars>>

\* import('memjs') is rejected: every suspended cacheSet takes its catch
ImportFails ==
    /\ importWait # <<>>
    /\ importWait' = <<>>
    /\ cacheThrew' = (cacheThrew \/ CacheSetOnError = "threw")
    /\ IF HasTerminal(importWait)
         THEN CloseResume(CacheSetOnError)
         ELSE UNCHANGED promiseVars
    /\ UNCHANGED <<client, conn, store, published, cacheSetCalls, setsIssued,
                   childVars, cmdVars, execConfig, workerVars, apiVars>>

\* the oldest c.set in flight on client k reaches the store; cacheSet
\* returns true
SetLands(k) ==
    /\ conn[k] # <<>>
    /\ store' = Head(conn[k])
    /\ published' = Append(published, Head(conn[k]))
    /\ conn' = [conn EXCEPT ![k] = Tail(@)]
    /\ IF IsTerminal(Head(conn[k]))
         THEN CloseResume("true")
         ELSE UNCHANGED promiseVars
    /\ UNCHANGED <<client, importWait, cacheSetCalls, setsIssued, cacheThrew,
                   childVars, cmdVars, execConfig, workerVars, apiVars>>

\* the oldest c.set in flight on client k fails (store unreachable): the
\* catch of cacheSet decides what its caller sees
SetFails(k) ==
    /\ conn[k] # <<>>
    /\ conn' = [conn EXCEPT ![k] = Tail(@)]
    /\ cacheThrew' = (cacheThrew \/ CacheSetOnError = "threw")
    /\ IF IsTerminal(Head(conn[k]))
         THEN CloseResume(CacheSetOnError)
         ELSE UNCHANGED promiseVars
    /\ UNCHANGED <<client, importWait, store, published, cacheSetCalls,
                   setsIssued, childVars, cmdVars, execConfig, workerVars, apiVars>>

\* execCmd: the close handler's choice
ExecCmdOutcome(code) == IF code = 0 THEN "resolve" ELSE "reject"

\* new Error(`cmd failed (${code}): ${stderr}`)
CmdError(code, stderr) == [kind |-> "cmd failed", code |-> code, stderr |-> stderr]

\* execCmd(cmd, args): spawn
CmdStart ==
    /\ cmdPc = "none"
    /\ cmdPc' = "running"
    /\ UNCHANGED <<cmdResult, childVars, promiseVars, cacheVars, execConfig, workerVars, apiVars>>

\* execCmd: child.on('close', code => ...)
CmdClose(code, text) ==
    /\ cmdPc = "running"
    /\ cmdPc' = IF ExecCmdOutcome(code) = "resolve" THEN "resolved" ELSE "rejected"
    /\ cmdResult' = IF ExecCmdOutcome(code) = "resolve"
                      THEN ResolveValue(code, text)
                      ELSE CmdError(code, text)
    /\ UNCHANGED <<childVars, promiseVars, cacheVars, execConfig, workerVars, apiVars>>

\* execCmd: child.on('error', reject)
CmdSpawnFails ==
    /\ cmdPc = "running"
    /\ cmdPc' = "rejected"
    /\ cmdResult' = PlainError("spawn")
    /\ UNCHANGED <<childVars, promiseVars, cacheVars, execConfig, workerVars, apiVars>>

(***************************************************************************)
(* The progress channel: GET /jobs/:id/events (routes.js) over cacheGet    *)
(* (cache.js).  One client is followed through its connections.            *)
(***************************************************************************)
\* no connection was opened yet
SseIdle ==
    /\ ssePc = "none"
    /\ alive = FALSE
    /\ state = NoValue
    /\ heldAtRead = NoValue
    /\ iv = "none"
    /\ polls = <<>>
    /\ sent = <<>>
    /\ reconnected = FALSE


\* what the encoder's reporter can have put under job:<id>
StoreValues == {Running(t) : t \in 1..MaxTime} \cup {Terminal(code) : code \in ExitCodes}

\* cacheGet(key): the stored value, or null when the cache is disabled, the
\* get fails, or nothing is stored
cacheGet(ok, held) == IF ok THEN held ELSE NoValue

\* send(event, data): writes the event unless the connection was closed
send(q, a, event, data, poll) ==
    IF a THEN Append(q, [event |-> event, data |-> data, poll |-> poll]) ELSE q

\* the handler starts: headers, alive = true, the close listener, and the
\* first cacheGet is issued
SseConnect ==
    /\ ssePc = "none" \/ (~alive /\ ssePc = "open")
    /\ reconnected' = (ssePc # "none")
    /\ ssePc' = "get"
    /\ alive' = TRUE
    /\ state' = NoValue
    /\ heldAtRead' = NoValue
    /\ iv' = "none"
    /\ polls' = <<>>
    /\ sent' = <<>>
    /\ UNCHANGED <<notSse>>

\* the first cacheGet reaches the store (or fails)
SseInitialRead(ok) ==
    /\ ssePc = "get"
    /\ state' = cacheGet(ok, store)
    /\ heldAtRead' = store
    /\ ssePc' = "gotState"
    /\ UNCHANGED <<alive, iv, polls, sent, reconnected, notSse>>

\* the handler resumes: if (state) send('progress', state); setInterval(...)
SseInitialSend ==
    /\ ssePc = "gotState"
    /\ sent' = IF state # NoValue THEN send(sent, alive, "progress", state, 0) ELSE sent
    /\ iv' = "set"
    /\ ssePc' = "open"
    /\ UNCHANGED <<alive, state, heldAtRead, polls, reconnected, notSse>>

\* req.on('close'): the client went away
SseClose ==
    /\ alive
    /\ alive' = FALSE
    /\ UNCHANGED <<ssePc, state, heldAtRead, iv, polls, sent, reconnected, notSse>>

\* the interval fires: a closed connection clears it, else a cacheGet is issued
PollFire ==
    /\ iv = "set"
    /\ IF ~alive
         THEN iv' = "cleared" /\ UNCHANGED polls
         ELSE /\ Len(polls) < MaxPolls
              /\ polls' = Append(polls, [stage |-> "get", s |-> NoValue, read |-> NoValue])
              /\ UNCHANGED iv
    /\ UNCHANGED <<ssePc, alive, state, heldAtRead, sent, reconnected, notSse>>

\* the cacheGet of callback i reaches the store (or fails)
PollRead(i, ok) ==
    /\ polls[i].stage = "get"
    /\ polls' = [polls EXCEPT ![i] = [stage |-> "got", s |-> cacheGet(ok, store), read |-> store]]
    /\ UNCHANGED <<ssePc, alive, state, heldAtRead, iv, sent, reconnected, notSse>>

\* mutant: the callback sends the handler's first read again
PollEventDataStale(first, s) == first

\* the data of the progress event of a callback: its own read
PollEventData(first, s) == s

\* callback i resumes: if (s) send('progress', s) else send('ping', ...)
PollSend(i) ==
    /\ polls[i].stage = "got"
    /\ polls' = [polls EXCEPT ![i].stage = "done"]
    /\ sent' = IF polls[i].s # NoValue
                 THEN send(sent, alive, "progress", PollEventData(state, polls[i].s), i)
                 ELSE send(sent, alive, "ping", NoValue, i)
    /\ UNCHANGED <<ssePc, alive, state, heldAtRead, iv, reconnected, notSse>>

\* the encoder's reporter puts a value under job:<id>
StoreWrite(v) ==
    /\ store # v
    /\ store' = v
    /\ UNCHANGED <<apiVars, workerVars, execConfig, childVars, promiseVars, cmdVars,
                   client, importWait, conn, published, cacheSetCalls, setsIssued, cacheThrew>>

\* the value's time to live (120 s) runs out
StoreExpire ==
    /\ store # NoValue
    /\ store' = NoValue
    /\ UNCHANGED <<apiVars, workerVars, execConfig, childVars, promiseVars, cmdVars,
                   client, importWait, conn, published, cacheSetCalls, setsIssued, cacheThrew>>

(***************************************************************************)
(* The synchronous render handler: POST /projects/:id/render (routes.js)   *)
(***************************************************************************)
Renders == 1..MaxRenders

\* no record under an outId
NoRecord == [present |-> FALSE, status |-> "", output |-> 0, error |-> NoError]
\* { id: outId, projectId, ownerId, output: `/media/outputs/${outName}`,
\*   createdAt, code, stderr }: the record has no status field
JobRecord(id) == [present |-> TRUE, status |-> "", output |-> id, error |-> NoError]

NoResponse == [status |-> 0, output |-> 0, error |-> "", detail |-> NoError]
\* res.status(201).json({ output: job.output, job })
Created(id) == [status |-> 201, output |-> id, error |-> "", detail |-> NoError]
\* res.status(500).json({ error: 'render failed', detail: e.message })
RenderFailed(e) == [status |-> 500, output |-> 0, error |-> "render failed", detail |-> e]
\* res.status(500).json({ error: 'Failed to process render request' })
RequestFailed == [status |-> 500, output |-> 0, error |-> "Failed to process render request",
                  detail |-> NoError]

SyncIdle ==
    /\ renderPc = "none"
    /\ outId = 0
    /\ userJobs = [r \in Renders |-> NoRecord]
    /\ responses = [r \in Renders |-> NoResponse]


\* a render request passed the project checks; its files are being prepared
RenderRequest ==
    /\ renderPc = "none"
    /\ outId < MaxRenders
    /\ outId' = outId + 1
    /\ renderPc' = "build"
    /\ UNCHANGED <<userJobs, responses, notSync>>

\* await buildFfmpegCommand(...) (or the file preparation before it): returns,
\* or throws into the outer catch
RenderBuild ==
    /\ renderPc = "build"
    /\ \/ /\ renderPc' = "encode"
          /\ UNCHANGED responses
       \/ /\ renderPc' = "none"
          /\ responses' = [responses EXCEPT ![outId] = RequestFailed]
    /\ UNCHANGED <<outId, userJobs, notSync>>

\* what the inner catch does to the Job records: it only logs and responds
CatchPersists(recs, id, e) == recs

\* await execFfmpegWithProgress(cmd, outPath, outId): the encoder closed
RenderEncode(code, text) ==
    /\ renderPc = "encode"
    /\ IF CloseOutcome(code) = "resolve"
         THEN /\ renderPc' = "save"
              /\ UNCHANGED <<userJobs, responses>>
         ELSE /\ renderPc' = "none"
              /\ userJobs' = CatchPersists(userJobs, outId, EncodeError(code, text))
              /\ responses' = [responses EXCEPT ![outId] = RenderFailed(EncodeError(code, text))]
    /\ UNCHANGED <<outId, notSync>>

\* await execFfmpegWithProgress(...): the encoder could not be started
RenderEncodeSpawnError ==
    /\ renderPc = "encode"
    /\ renderPc' = "none"
    /\ userJobs' = CatchPersists(userJobs, outId, PlainError("spawn"))
    /\ responses' = [responses EXCEPT ![outId] = RenderFailed(PlainError("spawn"))]
    /\ UNCHANGED <<outId, notSync>>

\* await saveUserJob(req.user.username, outId, job), then the 201 response;
\* a throwing save goes to the inner catch
RenderSave ==
    /\ renderPc = "save"
    /\ renderPc' = "none"
    /\ \/ /\ userJobs' = [userJobs EXCEPT ![outId] = JobRecord(outId)]
          /\ responses' = [responses EXCEPT ![outId] = Created(outId)]
       \/ /\ userJobs' = CatchPersists(userJobs, outId, PlainError("db"))
          /\ responses' = [responses EXCEPT ![outId] = RenderFailed(PlainError("db"))]
    /\ UNCHANGED <<outId, notSync>>

(***************************************************************************)
(* The timeline compiler: buildFfmpegCommand (video.js).  Times are kept   *)
(* in half milliseconds, so that whole seconds, milliseconds and a time    *)
(* between two milliseconds are all integers.  The argument vector is kept *)
(* in parsed form: the inputs, the chains of the filter graph in the order *)
(* they are joined, the -map arguments and the codec options.              *)
(***************************************************************************)
Seconds(n) == 2000 * n
\* Math.ceil of a time, in seconds
CeilSec(u) == (u + 1999) \div 2000
\* mutant: the delay is rounded up
CeilMs(u) == (u + 1) \div 2

\* Math.floor(x * 1000) of a time, in milliseconds
FloorMs(u) == u \div 2
Max2(a, b) == IF a >= b THEN a ELSE b

NoArgs == [inputs |-> <<>>, filtergraph |-> <<>>, maps |-> <<>>, audio |-> <<>>, video |-> <<>>]

CompIdle ==
    /\ compPc = "idle"
    /\ tracks = <<>>
    /\ files = <<>>
    /\ preset = "crispstream"
    /\ args = NoArgs
    /\ calls = 0
    /\ prevArgs = NoArgs

\* the body of a message: the only field the retry reads or rewrites
Body(n) == [retryCount |-> n]
NoRetryResult == [success |-> FALSE, retryCount |-> 0]

\* retryFailedJob is not part of the run
RetryIdle ==
    /\ RENDER_QUEUE_URL = TRUE
    /\ DLQ_URL = TRUE
    /\ mainQueue = <<>>
    /\ dlq = <<>>
    /\ retryPc = "none"
    /\ jobData = Body(0)
    /\ updatedJob = Body(0)
    /\ retryResult = NoRetryResult
    /\ sentBody = Body(0)
    /\ retries = 0
    /\ dlqAtCall = <<>>
    /\ enqueued = FALSE
    /\ removed = FALSE

Workers == 1..NumWorkers

\* no fleet is part of the run
FleetIdle ==
    /\ fleetPc = [w \in Workers |-> "none"]
    /\ encodeLeft = [w \in Workers |-> 0]
    /\ qState = "visible"
    /\ qTimer = 0
    /\ qReceives = 0
    /\ receiver = 0

ApiIdle == SseIdle /\ SyncIdle /\ CompIdle /\ RetryIdle /\ FleetIdle

\* for (const t of tracks) for (const c of t.clips): the clips in
\* enumeration order, each with the type of its track
RECURSIVE Enumerate(_)
Enumerate(ts) ==
    IF ts = <<>> THEN <<>>
    ELSE [i \in 1..Len(Head(ts).clips) |-> [type |-> Head(ts).type, clip |-> Head(ts).clips[i]]]
           \o Enumerate(Tail(ts))

\* mutant: a clip whose file is missing falls back to the first file
findOrFirst(fs, id) ==
    IF \E i \in 1..Len(fs) : fs[i].id = id
      THEN CHOOSE i \in 1..Len(fs) : fs[i].id = id /\ \A k \in 1..(i - 1) : fs[k].id # id
      ELSE 1

\* files.find(x => x.id === c.fileId): the index of the first match, 0 for none
find(fs, id) ==
    IF \E i \in 1..Len(fs) : fs[i].id = id
      THEN CHOOSE i \in 1..Len(fs) : fs[i].id = id /\ \A k \in 1..(i - 1) : fs[k].id # id
      ELSE 0

\* { ...c, path: f.path } for the clips of the tracks of one type whose file
\* is found; the others are skipped
ClipsOfType(ts, fs, ty) ==
    LET kept == SelectSeq(Enumerate(ts), LAMBDA x : x.type = ty /\ find(fs, x.clip.fileId) # 0)
    IN  [i \in 1..Len(kept) |->
           [fileId |-> kept[i].clip.fileId, in |-> kept[i].clip.in, out |-> kept[i].clip.out,
            start |-> kept[i].clip.start, path |-> fs[find(fs, kept[i].clip.fileId)].path]]

\* for (const c of [...]) duration = Math.max(duration, c.start + (c.out - c.in))
RECURSIVE MaxEnd(_, _)
MaxEnd(clips, duration) ==
    IF clips = <<>> THEN duration
    ELSE MaxEnd(Tail(clips), Max2(duration, Head(clips).start + (Head(clips).out - Head(clips).in)))

\* mutant: no safety margin is added
DurationNoMargin(clips) == CeilSec(MaxEnd(clips, Seconds(10)))

\* let duration = 10; the loop; duration = Math.ceil(duration + 1), in seconds
Duration(clips) == CeilSec(MaxEnd(clips, Seconds(10)) + Seconds(1))

\* the stream labels v<n>, a<n>, base<n>, aout and the base input's pad 0:v
VLabel(n) == <<"v", n>>
ALabel(n) == <<"a", n>>
BaseLabel(n) == <<"base", n>>
AOut == <<"aout", 0>>
ZeroV == <<"0:v", 0>>

\* the first loop over videoClips: input vi and the chain [vi:v]trim=...,
\* setpts=PTS-STARTPTS,scale,pad,format,setpts=PTS+start/TB[v<vi>]
VideoChains(vc) ==
    [k \in 1..Len(vc) |->
        [kind |-> "vchain", src |-> k, trimStart |-> vc[k].in, trimEnd |-> vc[k].out,
         shift |-> vc[k].start, out |-> VLabel(k)]]

\* mutant: the overlay window is read from the following clip
OverlayClipNext(vc, count) == vc[IF count < Len(vc) THEN count + 1 ELSE count]

\* videoClips[count-1] of the second loop (count starts at 1)
OverlayClip(vc, count) == vc[count]

\* mutant: the chain does not advance, every overlay is laid on 0:v
NextLastStuck(last, out) == last

\* last = out
NextLast(last, out) == out

\* the second loop: [last][vlabel]overlay=format=auto:enable='between(t,
\* start, start + (out - in))'[base<count>]
RECURSIVE Overlays(_, _, _, _)
Overlays(vc, count, last, parts) ==
    IF count > Len(vc) THEN [parts |-> parts, last |-> last]
    ELSE LET c == OverlayClip(vc, count)
             out == BaseLabel(count)
         IN  Overlays(vc, count + 1, NextLast(last, out),
                      Append(parts, [kind |-> "overlay", base |-> last, over |-> VLabel(count),
                                     from |-> c.start, to |-> c.start + (c.out - c.in),
                                     out |-> out]))

\* mutant: the audio index restarts at 1 instead of following the video inputs
AudioChainsFromOne(ac, vi) ==
    [k \in 1..Len(ac) |->
        [kind |-> "achain", src |-> k, trimStart |-> ac[k].in, trimEnd |-> ac[k].out,
         delayMs |-> Max2(0, FloorMs(ac[k].start)), out |-> ALabel(k)]]

\* the loop over audioClips: input ai and the chain [ai:a]atrim=...,
\* asetpts=PTS-STARTPTS,adelay=<delayMs>:all=1[a<ai>], ai starting at vi
AudioChains(ac, vi) ==
    [k \in 1..Len(ac) |->
        [kind |-> "achain", src |-> vi + k - 1, trimStart |-> ac[k].in, trimEnd |-> ac[k].out,
         delayMs |-> Max2(0, FloorMs(ac[k].start)), out |-> ALabel(vi + k - 1)]]

\* mutant: a single audio stream is not mixed
AudioMixSkipsSingle(ac, vi) ==
    IF Len(ac) > 1
      THEN <<[kind |-> "amix", ins |-> [k \in 1..Len(ac) |-> ALabel(vi + k - 1)],
              inputs |-> Len(ac), normalize |-> 0, out |-> AOut]>>
      ELSE <<>>

\* if (alabels.length>0) ...amix=inputs=<n>:normalize=0[aout]
AudioMix(ac, vi) ==
    IF Len(ac) > 0
      THEN <<[kind |-> "amix", ins |-> [k \in 1..Len(ac) |-> ALabel(vi + k - 1)],
              inputs |-> Len(ac), normalize |-> 0, out |-> AOut]>>
      ELSE <<>>

\* presetName and crf of the preset
VideoCodec(p) ==
    IF p = "fast" THEN [preset |-> "veryfast", crf |-> 23]
    ELSE IF p = "quality" THEN [preset |-> "veryslow", crf |-> 18]
    ELSE [preset |-> "medium", crf |-> 20]

\* buildFfmpegCommand(project, files, options)
\* mutant: an audio clip of a file that a video clip already opened reuses
\* that input
InputArgsSharedFile(vc, ac, duration) ==
    <<[f |-> "lavfi", t |-> duration, i |-> "color=c=black"]>>
      \o [k \in 1..Len(vc) |-> [f |-> "file", t |-> 0, i |-> vc[k].path]]
      \o SelectSeq([k \in 1..Len(ac) |-> [f |-> "file", t |-> 0, i |-> ac[k].path]],
                   LAMBDA x : \A k \in 1..Len(vc) : vc[k].path # x.i)

\* inputArgs: -f lavfi -t duration -r fps -i color=c=black:s=WxH, then
\* inputArgs.push('-i', clip.path) per video clip and then per audio clip
InputArgs(vc, ac, duration) ==
    <<[f |-> "lavfi", t |-> duration, i |-> "color=c=black"]>>
      \o [k \in 1..Len(vc) |-> [f |-> "file", t |-> 0, i |-> vc[k].path]]
      \o [k \in 1..Len(ac) |-> [f |-> "file", t |-> 0, i |-> ac[k].path]]

buildFfmpegCommand(ts, fs, p) ==
    LET videoClips == ClipsOfType(ts, fs, "video")
        audioClips == ClipsOfType(ts, fs, "audio")
        duration == Duration(videoClips \o audioClips)
        vi == Len(videoClips) + 1
        chain == Overlays(videoClips, 1, ZeroV, <<>>)
        vOutLabel == chain.last
    IN  [inputs |-> InputArgs(videoClips, audioClips, duration),
         filtergraph |-> VideoChains(videoClips) \o chain.parts
                           \o AudioChains(audioClips, vi) \o AudioMix(audioClips, vi),
         maps |-> <<[bracket |-> TRUE, label |-> vOutLabel]>>
                    \o (IF Len(audioClips) > 0 THEN <<[bracket |-> TRUE, label |-> AOut]>> ELSE <<>>),
         audio |-> IF Len(audioClips) > 0 THEN <<"-c:a", "aac", "-b:a", "192k">> ELSE <<"-an">>,
         video |-> <<VideoCodec(p)>>]

\* the clips a timeline can hold: windows [0,5] and [2,7], a clip cut from
\* second 1 of its source that ends at 10, and one that starts between two
\* milliseconds and ends after 10.5
ClipAt0 == [fileId |-> "A", in |-> 0, out |-> Seconds(5), start |-> 0]
ClipAt2 == [fileId |-> "B", in |-> 0, out |-> Seconds(5), start |-> Seconds(2)]
ClipPool ==
    { ClipAt0, ClipAt2,
      [fileId |-> "A", in |-> Seconds(1), out |-> Seconds(11), start |-> 0],
      [fileId |-> "B", in |-> 0, out |-> Seconds(10) + 1000, start |-> 1] }

\* the clip lists a track can hold: none, one clip of the pool, or the two
\* overlapping windows in either order
ClipLists ==
    {<<>>} \cup {<<c>> : c \in ClipPool} \cup {<<ClipAt0, ClipAt2>>, <<ClipAt2, ClipAt0>>}

TrackChoices == [type : {"video", "audio"}, clips : ClipLists]

Timelines == UNION {[1..n -> TrackChoices] : n \in 0..MaxTracks}

FileA == [id |-> "A", path |-> "a.mp4"]
FileB == [id |-> "B", path |-> "b.mp4"]
\* the resolved files: both, or A alone (clips of B are then skipped)
FilesChoices == {<<FileA, FileB>>, <<FileA>>}

PresetChoices == {"crispstream", "fast", "quality"}

\* the caller passes a project, its files and the options
CompInit ==
    /\ compPc = "input"
    /\ tracks \in Timelines
    /\ files \in FilesChoices
    /\ preset \in PresetChoices
    /\ args = NoArgs
    /\ calls = 0
    /\ prevArgs = NoArgs

\* mutant: a counter of the module survives between calls and numbers the
\* first input of the next call
CallKeepsCounter(earlier, ts, fs, p) ==
    [buildFfmpegCommand(ts, fs, p) EXCEPT !.inputs[1].t = @ + earlier]

\* what a call returns after a number of earlier calls: every accumulator of
\* buildFfmpegCommand is a local of the call and it reads no clock, so the
\* earlier calls do not enter
CallResult(earlier, ts, fs, p) == buildFfmpegCommand(ts, fs, p)

\* const cmd = await buildFfmpegCommand(...), for the first time or again
Compile ==
    /\ compPc \in {"input", "compiled"}
    /\ calls < MaxCalls
    /\ calls' = calls + 1
    /\ prevArgs' = args
    /\ args' = CallResult(calls, tracks, files, preset)
    /\ compPc' = "compiled"
    /\ UNCHANGED <<tracks, files, preset, notComp>>

(***************************************************************************)
(* The specifications                                                  *)
(***************************************************************************)
Init == WorkerInit /\ ExecIdle /\ ApiIdle

Next ==
    \/ StartWorker
    \/ LoopTop
    \/ LoopSleepDone
    \/ LoopDepth
    \/ LoopReceiveNone
    \/ \E j \in Jobs : LoopReceiveJob(j)
    \/ JobSaveProcessing
    \/ JobBuild
    \/ \E code \in ExitCodes, text \in StderrTexts : JobEncode(code, text)
    \/ JobEncodeSpawnError
    \/ JobUpload
    \/ JobSaveCompleted
    \/ JobDelete
    \/ JobDeleteReturn
    \/ JobCatch
    \/ StopWorker
    \/ Signal
    \/ ShutdownTick
    \/ \E j \in Jobs : VisibilityTimeout(j)
    \/ \E j \in Jobs : Redrive(j)

Spec == Init /\ [][Next]_vars

\* the worker of one deployment: S3 configured, WORKER_MAX_CONCURRENT_JOBS at
\* its largest value
InitShutdown == Init /\ useS3 = TRUE /\ MAX_CONCURRENT_JOBS = MaxCapacity

\* that worker under the one scheduling fact the shutdown handler relies on:
\* its one-second timer keeps firing while the handler waits
SpecShutdown == InitShutdown /\ [][Next]_vars /\ WF_vars(ShutdownTick)

\* the worker is left out of the encoder-run specification
WorkerIdle ==
    /\ WorkerInit
    /\ MAX_CONCURRENT_JOBS = 1
    /\ useS3 = FALSE

InitExec == WorkerIdle /\ ExecInit /\ ApiIdle

NextExec ==
    \/ ExecStart
    \/ \E chunk \in ChunksFrom(lastTime) : DataChunk(chunk)
    \/ SpawnFails
    \/ \E code \in ExitCodes \cup SpawnFailCodes : Close(code)
    \/ ImportResolves
    \/ ImportFails
    \/ \E k \in 1..Len(conn) : SetLands(k)
    \/ \E k \in 1..Len(conn) : SetFails(k)
    \/ CmdStart
    \/ \E code \in ExitCodes, text \in StderrTexts : CmdClose(code, text)
    \/ CmdSpawnFails

SpecExec == InitExec /\ [][NextExec]_vars

\* the progress channel with the store written by the encoder's reporter
InitSse == WorkerIdle /\ ExecIdle /\ ApiIdle

NextSse ==
    \/ SseConnect
    \/ \E ok \in BOOLEAN : SseInitialRead(ok)
    \/ SseInitialSend
    \/ SseClose
    \/ PollFire
    \/ \E i \in 1..Len(polls), ok \in BOOLEAN : PollRead(i, ok)
    \/ \E i \in 1..Len(polls) : PollSend(i)
    \/ \E v \in StoreValues : StoreWrite(v)
    \/ StoreExpire

SpecSse == InitSse /\ [][NextSse]_vars

\* the synchronous render handler
InitSync == WorkerIdle /\ ExecIdle /\ ApiIdle

NextSync ==
    \/ RenderRequest
    \/ RenderBuild
    \/ \E code \in ExitCodes, text \in StderrTexts : RenderEncode(code, text)
    \/ RenderEncodeSpawnError
    \/ RenderSave

SpecSync == InitSync /\ [][NextSync]_vars

\* one call of the compiler on a bounded timeline
InitCompile ==
    WorkerIdle /\ ExecIdle /\ SseIdle /\ SyncIdle /\ CompInit /\ RetryIdle /\ FleetIdle

NextCompile == Compile

SpecCompile == InitCompile /\ [][NextCompile]_vars

(***************************************************************************)
(* Retries from the dead-letter queue: retryFailedJob, enqueueRenderJob,   *)
(* deleteDLQMessage (queue.js)                                             *)
(***************************************************************************)
\* the job was enqueued by enqueueRenderJob (retryCount: 0), failed its
\* deliveries and was diverted; the process may lack either queue URL
RetryInit ==
    /\ RENDER_QUEUE_URL \in BOOLEAN
    /\ DLQ_URL \in BOOLEAN
    /\ mainQueue = <<>>
    /\ dlq = <<Body(0)>>
    /\ retryPc = "idle"
    /\ jobData = Body(0)
    /\ updatedJob = Body(0)
    /\ retryResult = NoRetryResult
    /\ sentBody = Body(0)
    /\ retries = 0
    /\ dlqAtCall = <<>>
    /\ enqueued = FALSE
    /\ removed = FALSE

\* retryFailedJob(receiptHandle, jobData) with a message received from the
\* dead-letter queue: updatedJob = { ...jobData, retryCount:
\* (jobData.retryCount || 0) + 1 }
RetryCall ==
    /\ retryPc = "idle"
    /\ dlq # <<>>
    /\ retries < MaxRetries
    /\ retries' = retries + 1
    /\ jobData' = Head(dlq)
    /\ updatedJob' = [Head(dlq) EXCEPT !.retryCount = @ + 1]
    /\ dlqAtCall' = dlq
    /\ enqueued' = FALSE
    /\ removed' = FALSE
    /\ retryPc' = "enqueue"
    /\ UNCHANGED <<RENDER_QUEUE_URL, DLQ_URL, mainQueue, dlq, retryResult, sentBody, notRetry>>

\* the messageBody enqueueRenderJob builds from its argument: the fields are
\* copied one by one and retryCount is the literal 0
MessageBody(job) == Body(0)

\* mutant: a failed re-enqueue is ignored and the retry goes on
EnqueueFailureIgnored == "delete"

\* enqueueRenderJob throws (not configured, or the send failed); the throw
\* leaves the try block of retryFailedJob, whose catch rethrows
OnEnqueueFailure == "threw"

\* await enqueueRenderJob(updatedJob)
RetryEnqueue ==
    /\ retryPc = "enqueue"
    /\ \E ok \in BOOLEAN :
          IF RENDER_QUEUE_URL /\ ok
            THEN /\ mainQueue' = Append(mainQueue, MessageBody(updatedJob))
                 /\ sentBody' = MessageBody(updatedJob)
                 /\ enqueued' = TRUE
                 /\ retryPc' = "delete"
            ELSE /\ retryPc' = OnEnqueueFailure
                 /\ UNCHANGED <<mainQueue, sentBody, enqueued>>
    /\ UNCHANGED <<RENDER_QUEUE_URL, DLQ_URL, dlq, jobData, updatedJob, retryResult,
                   retries, dlqAtCall, removed, notRetry>>

\* await deleteDLQMessage(receiptHandle), then return { success, jobId,
\* retryCount: updatedJob.retryCount }; a throw is rethrown by the catch
RetryDelete ==
    /\ retryPc = "delete"
    /\ \E ok \in BOOLEAN :
          IF DLQ_URL /\ ok
            THEN /\ dlq' = Tail(dlq)
                 /\ removed' = TRUE
                 /\ retryResult' = [success |-> TRUE, retryCount |-> updatedJob.retryCount]
                 /\ retryPc' = "returned"
            ELSE /\ retryPc' = "threw"
                 /\ UNCHANGED <<dlq, removed, retryResult>>
    /\ UNCHANGED <<RENDER_QUEUE_URL, DLQ_URL, mainQueue, jobData, updatedJob, sentBody,
                   retries, dlqAtCall, enqueued, notRetry>>

\* the caller has the result or the error
RetryDone ==
    /\ retryPc \in {"returned", "threw"}
    /\ retryPc' = "idle"
    /\ UNCHANGED <<RENDER_QUEUE_URL, DLQ_URL, mainQueue, dlq, jobData, updatedJob,
                   retryResult, sentBody, retries, dlqAtCall, enqueued, removed, notRetry>>

\* the re-enqueued message fails its deliveries again and is diverted
RetryRedrive ==
    /\ retryPc # "none"
    /\ mainQueue # <<>>
    /\ dlq' = Append(dlq, Head(mainQueue))
    /\ mainQueue' = Tail(mainQueue)
    /\ UNCHANGED <<RENDER_QUEUE_URL, DLQ_URL, retryPc, jobData, updatedJob, retryResult,
                   sentBody, retries, dlqAtCall, enqueued, removed, notRetry>>

InitRetry == WorkerIdle /\ ExecIdle /\ SseIdle /\ SyncIdle /\ CompIdle /\ FleetIdle /\ RetryInit

NextRetry == RetryCall \/ RetryEnqueue \/ RetryDelete \/ RetryDone \/ RetryRedrive

SpecRetry == InitRetry /\ [][NextRetry]_vars

(***************************************************************************)
(* Several worker processes on one render queue: workerLoop and            *)
(* processRenderJob (config.js) in each, receiveRenderJobs (queue.js)      *)
(***************************************************************************)
\* every worker polls; the job's message is on the queue
FleetInit ==
    /\ fleetPc = [w \in Workers |-> "poll"]
    /\ encodeLeft = [w \in Workers |-> 0]
    /\ qState = "visible"
    /\ qTimer = 0
    /\ qReceives = 0
    /\ receiver = 0

\* mutant: a worker takes a job only if no other worker is running it
AcceptsWithLease(runningElsewhere) == ~runningElsewhere

\* processRenderJob(message) starts on every message the loop received: it
\* reads no lease and no record of the job before activeJobs++ and the save
AcceptsDelivery(runningElsewhere) == TRUE

\* receiveRenderJobs returns the visible message to worker w (it becomes
\* invisible for the visibility timeout), and the loop calls
\* processRenderJob, whose encode will take d ticks
FleetReceive(w, d) ==
    /\ fleetPc[w] = "poll"
    /\ qState = "visible"
    /\ qReceives < MaxReceiveCount
    /\ qState' = "inflight"
    /\ qTimer' = 0
    /\ qReceives' = qReceives + 1
    /\ receiver' = w
    /\ IF AcceptsDelivery(\E o \in Workers \ {w} : fleetPc[o] = "processing")
         THEN /\ fleetPc' = [fleetPc EXCEPT ![w] = "processing"]
              /\ encodeLeft' = [encodeLeft EXCEPT ![w] = d]
         ELSE UNCHANGED <<fleetPc, encodeLeft>>
    /\ UNCHANGED notFleet

\* time passes: running encodes advance and the visibility timeout of an
\* invisible message runs; when it has run out the message is visible again
FleetTick ==
    /\ qState = "inflight" \/ \E w \in Workers : encodeLeft[w] > 0
    /\ encodeLeft' = [w \in Workers |-> IF encodeLeft[w] > 0 THEN encodeLeft[w] - 1 ELSE 0]
    /\ IF qState = "inflight"
         THEN /\ qTimer' = qTimer + 1
              /\ qState' = IF qTimer + 1 >= VisibilityTicks THEN "visible" ELSE "inflight"
         ELSE UNCHANGED <<qTimer, qState>>
    /\ UNCHANGED <<fleetPc, qReceives, receiver, notFleet>>

\* the encode of worker w is over: it deletes the message (a delete with an
\* expired receipt may not take effect) and polls again
FleetFinish(w) ==
    /\ fleetPc[w] = "processing"
    /\ encodeLeft[w] = 0
    /\ fleetPc' = [fleetPc EXCEPT ![w] = "poll"]
    /\ \E ok \in BOOLEAN :
          qState' = IF ok /\ qState # "dlq" THEN "deleted" ELSE qState
    /\ UNCHANGED <<encodeLeft, qTimer, qReceives, receiver, notFleet>>

\* the message ran out of deliveries and is diverted
FleetRedrive ==
    /\ fleetPc # [w \in Workers |-> "none"]
    /\ qState = "visible"
    /\ qReceives >= MaxReceiveCount
    /\ qState' = "dlq"
    /\ UNCHANGED <<fleetPc, encodeLeft, qTimer, qReceives, receiver, notFleet>>

InitFleet == WorkerIdle /\ ExecIdle /\ SseIdle /\ SyncIdle /\ CompIdle /\ RetryIdle /\ FleetInit

NextFleet ==
    \/ \E w \in Workers : \E d \in 1..MaxEncodeTicks : FleetReceive(w, d)
    \/ FleetTick
    \/ \E w \in Workers : FleetFinish(w)
    \/ FleetRedrive

SpecFleet == InitFleet /\ [][NextFleet]_vars

(***************************************************************************)
(* Claims about the worker (specification Spec)                            *)
(***************************************************************************)
EncoderFailed == att.exit \notin {-1, 0}

\* C1: the queue message is deleted only after the encoder exited with code
\* 0, the output was uploaded (when S3 is configured) and the record was
\* saved as completed; deleteRenderJob is not called, nor about to be
\* called, on any path where one of these failed or was skipped.
C1_DeleteOnlyAfterSuccess ==
    /\ (att.deleteCalled \/ jobPc = "delete") =>
          /\ att.exit = 0
          /\ (useS3 => att.uploaded)
          /\ att.savedCompleted
          /\ (~att.deleteCalled => err = NoError)
    /\ \A j \in Jobs : msgState[j] = "deleted" => record[j].status = "completed"

C1_Witness ==
    /\ att.deleted
    /\ useS3
    /\ att.uploaded
    /\ msgState[att.job] = "deleted"

\* C2 as stated: after any error raised while processing, the Job record
\* is failed with the error text, the message is not deleted in that
\* attempt and the error is rethrown.
C2_Original ==
    /\ (err # NoError) => (jobPc = "catchSave" \/ att.outcome = "threw")
    /\ att.outcome = "threw" =>
          /\ record[att.job] = Rec("failed", att.err)
          /\ ~att.deleted
          /\ msgState[att.job] # "deleted"

\* C2 amended: after any error raised while processing, the worker issues
\* the save of status failed with the error text (the record is failed with
\* that text when this save succeeds; a failure of this save is swallowed),
\* the message is not deleted in that attempt and the original error is
\* rethrown.
C2_FailedSaveAttempted ==
    /\ (err # NoError) => (jobPc = "catchSave" \/ att.outcome = "threw")
    /\ att.outcome = "returned" => (err = NoError /\ att.err = NoError)
    /\ att.outcome = "threw" =>
          /\ att.err # NoError
          /\ att.err = err
          /\ att.failSaveTried
          /\ att.failSaveText = att.err
          /\ (att.failSaveOk => record[att.job] = Rec("failed", att.err))
          /\ ~att.deleted
          /\ msgState[att.job] # "deleted"

C2_Witness ==
    /\ att.outcome = "threw"
    /\ att.failSaveTried
    /\ ~att.failSaveOk
    /\ record[att.job].status # "failed"

\* C3 as stated: after a nonzero encoder exit nothing is uploaded in that
\* attempt and the Job record is failed with text holding the stderr.
C3_Original ==
    EncoderFailed =>
        /\ ~att.uploadTried
        /\ jobPc \notin {"upload", "saveCompleted", "delete"}
        /\ att.outcome = "threw" =>
              /\ record[att.job].status = "failed"
              /\ record[att.job].error.stderr = att.stderr

\* C3 amended: after a nonzero encoder exit nothing is uploaded in that
\* attempt and the worker issues the save of status failed with text that
\* holds the captured stderr; the record is failed with that text whenever
\* this save succeeds.
C3_NoUploadAfterFailedEncode ==
    EncoderFailed =>
        /\ ~att.uploadTried
        /\ jobPc \notin {"upload", "saveCompleted", "delete"}
        /\ att.outcome # "returned"
        /\ att.outcome = "threw" =>
              /\ att.failSaveTried
              /\ att.failSaveText.kind = "ffmpeg failed"
              /\ att.failSaveText.code = att.exit
              /\ att.failSaveText.stderr = att.stderr
              /\ att.failSaveOk =>
                    /\ record[att.job].status = "failed"
                    /\ record[att.job].error.stderr = att.stderr

C3_Witness ==
    /\ EncoderFailed
    /\ att.stderr = "fatal"
    /\ att.outcome = "threw"
    /\ att.failSaveOk
    /\ record[att.job].error.stderr = "fatal"

StatusRank(st) ==
    IF st = "queued" THEN 0 ELSE IF st = "processing" THEN 1 ELSE 2

\* C4: a Job record's status only moves forward along queued -> processing
\* -> completed or failed, and once it is completed or failed no later
\* write changes it.
C4_TerminalStatus ==
    [][\A j \in Jobs :
          /\ StatusRank(record'[j].status) >= StatusRank(record[j].status)
          /\ record[j].status \in {"completed", "failed"}
                => record'[j].status = record[j].status]_vars

InFlightCalls == IF jobPc = "none" THEN 0 ELSE 1

CapacityRespected ==
    /\ activeJobs = InFlightCalls
    /\ 0 <= activeJobs
    /\ activeJobs <= MAX_CONCURRENT_JOBS
    /\ loopPc \in {"depth", "receive"} => activeJobs < MAX_CONCURRENT_JOBS
    /\ loopPc = "sleepCapacity" => activeJobs >= MAX_CONCURRENT_JOBS

SleepsAtCapacity ==
    /\ (loopPc = "top" /\ ~shutdownRequested /\ activeJobs >= MAX_CONCURRENT_JOBS)
          => loopPc' \in {"top", "sleepCapacity"}
    /\ loopPc = "sleepCapacity" => loopPc' \in {"sleepCapacity", "top"}

\* C9: in every state activeJobs is the number of processRenderJob calls
\* started and not settled and 0 <= activeJobs <= MAX_CONCURRENT_JOBS; the
\* loop is in a queue call only below capacity, and at capacity the head of
\* the loop goes to the poll-interval sleep, which leads back to the head.
C9_ActiveJobsBounded ==
    /\ []CapacityRespected
    /\ [][SleepsAtCapacity]_vars

C9_Witness ==
    /\ loopPc = "sleepCapacity"
    /\ activeJobs >= MAX_CONCURRENT_JOBS
    /\ att.outcome = "none"

\* C10: once shutdown was requested no processRenderJob call begins.
C10_NoJobAfterShutdown ==
    [][(shutdownRequested /\ jobPc = "none") => jobPc' = "none"]_vars

(***************************************************************************)
(* Claims about the encoder run (specification SpecExec)                   *)
(***************************************************************************)
\* C5: the time values that land under job:<jobId> are non-decreasing, in
\* the order their markers were observed.
C5_ProgressMonotone ==
    \A i, k \in 1..Len(published) :
        (i < k /\ published[i].status = "running" /\ published[k].status = "running")
            => published[i].time <= published[k].time

\* C6: no running record lands under job:<jobId> after the terminal
\* record, so once the terminal record has landed the store holds it.
C6_TerminalIsLast ==
    /\ \A i, k \in 1..Len(published) :
          (i < k /\ IsTerminal(published[i])) => IsTerminal(published[k])
    /\ (\E i \in 1..Len(published) : IsTerminal(published[i])) => IsTerminal(store)

ClosePending ==
    \/ HasTerminal(importWait)
    \/ \E k \in 1..Len(conn) : HasTerminal(conn[k])

\* C7: a failing progress store never changes the outcome of a render:
\* cacheSet never throws, issues c.set at most once per call, and the
\* promise settles by the exit code alone as soon as the close handler's
\* cacheSet is over.
C7_CacheFailureHarmless ==
    /\ ~cacheThrew
    /\ closePc # "died"
    /\ setsIssued <= cacheSetCalls
    /\ closePc = "awaiting" => ClosePending
    /\ closePc = "done" =>
          /\ settled \in {"resolved", "rejected"}
          /\ settled = "resolved" <=> closeCode = 0
    /\ settled = "resolved" => closePc = "done"

C7_Witness ==
    /\ cacheEnabled
    /\ hasJobId
    /\ cacheSetCalls > 1
    /\ published = <<>>
    /\ closePc = "done"
    /\ settled = "resolved"

\* C8 as stated: for every exit code the executor does not reject but
\* returns the code with the accumulated stderr.
C8_Original ==
    /\ (closePc = "done" /\ closeCode \in ExitCodes) =>
          /\ settled = "resolved"
          /\ result = ResolveValue(closeCode, stderrAcc)
    /\ cmdPc \in {"resolved", "rejected"} /\ cmdResult.kind # "spawn" => cmdPc = "resolved"

\* C8 amended: the executor resolves with the code and the accumulated
\* stderr for exit code 0 only; for a nonzero exit it rejects with an error
\* whose message holds the code and the accumulated stderr; a failure to
\* start the process rejects with the spawn error.
C8_RejectsNonzeroExit ==
    /\ (closePc = "done" /\ closeCode = 0) =>
          /\ settled = "resolved"
          /\ result = ResolveValue(0, stderrAcc)
    /\ (closePc = "done" /\ closeCode \in ExitCodes \ {0}) =>
          /\ settled = "rejected"
          /\ result = EncodeError(closeCode, stderrAcc)
    /\ (childPc = "spawnError" \/ closeCode \in SpawnFailCodes) =>
          /\ settled = "rejected"
          /\ result = PlainError("spawn")
    /\ cmdPc = "resolved" => (cmdResult.kind = "ok" /\ cmdResult.code = 0)
    /\ cmdPc = "rejected" =>
          \/ cmdResult = PlainError("spawn")
          \/ cmdResult.kind = "cmd failed" /\ cmdResult.code # 0

C8_Witness ==
    /\ closePc = "done"
    /\ closeCode = 1
    /\ settled = "rejected"
    /\ result.stderr = <<1, 2>>


(***************************************************************************)
(* Shutdown by signal                                                      *)
(***************************************************************************)
\* the handler has exited the process
ExitedByHandler == exited /\ shutdownPc = "done"

\* the exit is never before the jobs in flight finish unless the wait elapsed
ExitNotEarly == ExitedByHandler => (activeJobs = 0 \/ waited >= ShutdownWaitTicks)

\* a step of the handler (the signal or a tick) that finds no job in flight,
\* or the wait used up, exits in that same step
ExitsWhenDue ==
    /\ shutdownPc = "none" /\ shutdownPc' # "none" /\ activeJobs = 0 => exited'
    /\ shutdownPc = "waiting" /\ waited' # waited
          /\ (activeJobs = 0 \/ waited' >= ShutdownWaitTicks) => exited'

\* a job is in flight when the process exits
InFlightAtExit == ExitedByHandler /\ jobPc # "none"

\* the queue's state of the message of the job in flight
CurMessage == IF jobPc = "none" THEN "none" ELSE msgState[cur]

\* C11 as stated: after a termination signal the worker always exits, at
\* once with no job in flight, else when the jobs have finished or the
\* bounded wait has elapsed, never earlier; and a job in flight at the exit
\* has never had its queue message deleted
C11_Original ==
    /\ (shutdownPc # "none") ~> exited
    /\ []ExitNotEarly
    /\ [][ExitsWhenDue]_vars
    /\ [](InFlightAtExit => CurMessage # "deleted")

\* C11 amended: the same exit behaviour; a job in flight at the exit has its
\* message still in the queue, or its delete has taken effect at the queue
\* after its record was saved as completed and only the return of the delete
\* call to processRenderJob is outstanding
C11_ExitAfterSignal ==
    /\ (shutdownPc # "none") ~> exited
    /\ []ExitNotEarly
    /\ [][ExitsWhenDue]_vars
    /\ [](InFlightAtExit /\ CurMessage = "deleted"
            => jobPc = "deleteReturn" /\ att.savedCompleted)

\* the wait ran out with a job still in flight whose message is in the queue
C11_Witness ==
    /\ InFlightAtExit
    /\ activeJobs > 0
    /\ waited = ShutdownWaitTicks
    /\ CurMessage # "deleted"

(***************************************************************************)
(* Failing jobs and the dead-letter queue                                  *)
(***************************************************************************)
\* every processRenderJob call made for job j so far ended by throwing
EveryAttemptFailed(j) == failures[j] = receiveCount[j]

\* the queue's side: a delivery needs a visible message with deliveries left,
\* a message is diverted only with its deliveries used up, and a diverted
\* message stays diverted and is never delivered again
QueueStep(j) ==
    /\ receiveCount'[j] # receiveCount[j] =>
          msgState[j] = "visible" /\ receiveCount[j] < MaxReceiveCount
    /\ msgState[j] = "inflight" /\ msgState'[j] \notin {"inflight", "deleted"} =>
          msgState'[j] = "visible"
    /\ msgState[j] = "dlq" => msgState'[j] = "dlq" /\ receiveCount'[j] = receiveCount[j]

\* C12: a job whose every attempt fails is never deleted from the main
\* queue by a worker; each failed attempt leaves the message to become
\* visible again after its visibility timeout; once the maximum delivery
\* count is used up the message goes to the dead-letter queue and no worker
\* receives it from the main queue again
C12_FailingJobDeadLettered ==
    /\ [](\A j \in Jobs : EveryAttemptFailed(j) => msgState[j] # "deleted")
    /\ [](\A j \in Jobs : msgState[j] = "dlq" => receiveCount[j] = MaxReceiveCount)
    /\ [][\A j \in Jobs : QueueStep(j)]_vars

\* a job has failed the maximum number of times and sits in the DLQ
C12_Witness ==
    \E j \in Jobs : /\ msgState[j] = "dlq"
                     /\ failures[j] = MaxReceiveCount
                     /\ jobPc = "none"

(***************************************************************************)
(* Errors in the worker loop                                               *)
(***************************************************************************)
\* one step of the loop: a failed queue call or a failed job takes the loop
\* to its backoff sleep, the sleep ends at the head of the next iteration,
\* and the loop is left only at its head with shutdown requested
LoopErrorStep ==
    /\ loopPc = "depth" /\ loopPc' \notin {"depth", "receive"} => loopPc' = "backoff"
    /\ loopPc = "receive" /\ loopPc' \notin {"receive", "top", "process"} => loopPc' = "backoff"
    /\ failures' # failures => loopPc = "process" /\ loopPc' = "backoff"
    /\ loopPc = "backoff" /\ loopPc' # "backoff" => loopPc' = "top"
    /\ loopPc # "stopped" /\ loopPc' = "stopped" => loopPc = "top" /\ shutdownRequested

\* C13: an error from queue depth, receive or delete, or a failed job, never
\* ends the worker loop: it reaches the loop's handler, the loop sleeps for
\* the backoff and starts the next iteration; the loop ends only when
\* shutdown has been requested
C13_LoopSurvivesErrors ==
    /\ [](loopPc \in {"idle", "top", "sleepCapacity", "depth", "receive",
                       "process", "backoff", "stopped"})
    /\ [](loopPc = "stopped" => shutdownRequested)
    /\ [][LoopErrorStep]_vars

\* a job failed on its queue delete and the loop is polling again
C13_Witness ==
    /\ att.deleteCalled /\ ~att.deleted /\ att.outcome = "threw"
    /\ failures[cur] > 0
    /\ loopPc = "depth"
    /\ ~shutdownRequested

(***************************************************************************)
(* Claims about the progress channel (specification SpecSse)               *)
(***************************************************************************)
\* no interval callback runs before the handler has sent its first event
InitialPushFirst == ssePc \in {"get", "gotState"} => polls = <<>> /\ sent = <<>>

\* every progress event of an interval callback carries what the store held
\* when that callback's read reached it
PollEventsFresh ==
    \A k \in 1..Len(sent) :
        sent[k].event = "progress" /\ sent[k].poll > 0 => sent[k].data = polls[sent[k].poll].read

\* C14 as stated: on every connection, if the store holds a record under
\* job:<id>, the first event sent is a progress event carrying that record,
\* sent before any periodic update; every later progress event carries the
\* store's value at the time of its poll
C14_Original ==
    /\ InitialPushFirst
    /\ heldAtRead # NoValue /\ sent # <<>> =>
          sent[1] = [event |-> "progress", data |-> heldAtRead, poll |-> 0]
    /\ PollEventsFresh

\* C14 amended: the first event is the stored record whenever the handler's
\* first read of the store returns it; the record returned is the one the
\* store held
C14_InitialPushFromStore ==
    /\ InitialPushFirst
    /\ state # NoValue => state = heldAtRead
    /\ state # NoValue /\ sent # <<>> =>
          sent[1] = [event |-> "progress", data |-> heldAtRead, poll |-> 0]
    /\ PollEventsFresh

\* a reconnection got the stored record first and a newer one from a poll
C14_Witness ==
    /\ reconnected
    /\ Len(sent) >= 2
    /\ sent[1] = [event |-> "progress", data |-> heldAtRead, poll |-> 0]
    /\ sent[2].event = "progress"
    /\ sent[2].data # sent[1].data

(***************************************************************************)
(* Claims about the synchronous render handler (specification SpecSync)    *)
(***************************************************************************)
\* render r was answered with the encoder's failure
EncodeFailedResponse(r) ==
    /\ responses[r].error = "render failed"
    /\ responses[r].detail.kind \in {"ffmpeg failed", "spawn"}

\* C15: in synchronous mode a failed encode persists a Job record marked
\* failed with the error detail and returns an error response; a successful
\* one persists a Job record with the output location
C15_SyncRenderPersists ==
    \A r \in Renders :
        /\ EncodeFailedResponse(r) =>
              /\ responses[r].status = 500
              /\ userJobs[r].present
              /\ userJobs[r].status = "failed"
              /\ userJobs[r].error = responses[r].detail
        /\ responses[r].status = 201 =>
              /\ userJobs[r].present
              /\ userJobs[r].output = responses[r].output
              /\ userJobs[r].output = r

(***************************************************************************)
(* Claims about the compiler (specification SpecCompile).  The composite   *)
(* is read off the compiled filter graph: a chain shows its source while   *)
(* its trimmed and shifted stream has frames, an overlay shows its upper   *)
(* stream while it is enabled and that stream has a frame, else its lower  *)
(* stream.                                                                 *)
(***************************************************************************)
Black == [path |-> "black", at |-> 0]
Nothing == [path |-> "", at |-> 0]

\* the index of the chain of the filter graph that produces a label, 0 for none
Producer(parts, label) ==
    IF \E i \in 1..Len(parts) : parts[i].out = label
      THEN CHOOSE i \in 1..Len(parts) : parts[i].out = label
      ELSE 0

\* what the stream with a label shows at time t
RECURSIVE ShowAt(_, _, _)
ShowAt(a, label, t) ==
    IF label = ZeroV THEN Black
    ELSE LET i == Producer(a.filtergraph, label) IN
         IF i = 0 THEN Nothing
         ELSE LET part == a.filtergraph[i] IN
              IF part.kind = "vchain"
                THEN IF part.shift <= t /\ t <= part.shift + (part.trimEnd - part.trimStart)
                       THEN [path |-> a.inputs[part.src + 1].i, at |-> t - part.shift + part.trimStart]
                       ELSE Nothing
              ELSE IF part.kind = "overlay"
                THEN LET top == ShowAt(a, part.over, t) IN
                     IF part.from <= t /\ t <= part.to /\ top # Nothing
                       THEN top
                       ELSE ShowAt(a, part.base, t)
              ELSE Nothing

\* the picture of the mapped video stream at time t
Composite(a, t) == ShowAt(a, a.maps[1].label, t)

\* the resolved video clips of the timeline being compiled
ResolvedVideo == ClipsOfType(tracks, files, "video")
ResolvedAudio == ClipsOfType(tracks, files, "audio")

InWindow(c, t) == c.start <= t /\ t <= c.start + (c.out - c.in)

\* the clip that comes last in enumeration order among those whose window
\* contains t, at its own source time; black when there is none
Topmost(vc, t) ==
    LET cover == {k \in 1..Len(vc) : InWindow(vc[k], t)} IN
    IF cover = {} THEN Black
    ELSE LET k == CHOOSE m \in cover : \A n \in cover : n <= m
         IN  [path |-> vc[k].path, at |-> t - vc[k].start + vc[k].in]

\* the times at which the composite can change, and the two of the example
ProbeTimes(vc) ==
    {t \in UNION {{vc[k].start - 1, vc[k].start, vc[k].start + 1,
                   vc[k].start + (vc[k].out - vc[k].in) - 1,
                   vc[k].start + (vc[k].out - vc[k].in),
                   vc[k].start + (vc[k].out - vc[k].in) + 1} : k \in 1..Len(vc)}
          \cup {0, Seconds(3), Seconds(6)} : t >= 0}

\* C16: at every time the composite of the compiled overlay chain shows the
\* video clip that comes last in enumeration order among the clips whose
\* window contains that time (a later track hides an earlier one), and the
\* black base when no window contains it
C16_CompositeShowsTopmost ==
    compPc = "compiled" =>
        \A t \in ProbeTimes(ResolvedVideo) : Composite(args, t) = Topmost(ResolvedVideo, t)

\* the example: [2,7] on the lower track, [0,5] on the higher one; the higher
\* clip is shown at 3 s and the lower one at 6 s
C16_Witness ==
    /\ compPc = "compiled"
    /\ tracks = <<[type |-> "video", clips |-> <<ClipAt2>>],
                  [type |-> "video", clips |-> <<ClipAt0>>]>>
    /\ files = <<FileA, FileB>>
    /\ Composite(args, Seconds(3)) = [path |-> "a.mp4", at |-> Seconds(3)]
    /\ Composite(args, Seconds(6)) = [path |-> "b.mp4", at |-> Seconds(4)]

\* the overlays of the compiled chain, in order
OverlayParts(a) == SelectSeq(a.filtergraph, LAMBDA x : x.kind = "overlay")

\* overlay ov is the overlay of clip c: its upper stream is the chain that
\* trims c's own file to [in, out] and shifts it to start, and it is enabled
\* exactly on c's window
OverlayOf(a, ov, c) ==
    LET i == Producer(a.filtergraph, ov.over) IN
    /\ i # 0
    /\ a.filtergraph[i].kind = "vchain"
    /\ a.inputs[a.filtergraph[i].src + 1].i = c.path
    /\ a.filtergraph[i].trimStart = c.in
    /\ a.filtergraph[i].trimEnd = c.out
    /\ a.filtergraph[i].shift = c.start
    /\ ov.from = c.start
    /\ ov.to = c.start + (c.out - c.in)
    /\ ov.to - ov.from = c.out - c.in

\* overlay ov adds clip c's picture inside c's window and nothing outside
ContributesInWindowOnly(a, ov, c, t) ==
    IF InWindow(c, t)
      THEN ShowAt(a, ov.out, t) = [path |-> c.path, at |-> t - c.start + c.in]
      ELSE ShowAt(a, ov.out, t) = ShowAt(a, ov.base, t)

\* C17: the k-th overlay of the chain consumes the processed stream of the
\* k-th resolved video clip and is enabled exactly on that clip's window
\* [start, start + (out - in)], so the clip contributes nothing before its
\* start or after its end and lasts out - in
C17_OverlayMatchesClip ==
    compPc = "compiled" =>
        /\ Len(OverlayParts(args)) = Len(ResolvedVideo)
        /\ \A k \in 1..Len(ResolvedVideo) :
              /\ OverlayOf(args, OverlayParts(args)[k], ResolvedVideo[k])
              /\ \A t \in ProbeTimes(ResolvedVideo) :
                    ContributesInWindowOnly(args, OverlayParts(args)[k], ResolvedVideo[k], t)

\* two resolved video clips with different windows and sources were compiled
C17_Witness ==
    /\ compPc = "compiled"
    /\ Len(ResolvedVideo) = 2
    /\ ResolvedVideo[1].start # ResolvedVideo[2].start
    /\ ResolvedVideo[1].in # ResolvedVideo[2].in
    /\ OverlayOf(args, OverlayParts(args)[2], ResolvedVideo[2])
    /\ ~OverlayOf(args, OverlayParts(args)[2], ResolvedVideo[1])

\* the ends start + (out - in) of the windows of all resolved clips
WindowEnds ==
    LET all == ResolvedVideo \o ResolvedAudio
    IN  {all[k].start + (all[k].out - all[k].in) : k \in 1..Len(all)}

\* max(10, the latest window end)
LatestEnd == CHOOSE m \in WindowEnds \cup {Seconds(10)} :
                 \A e \in WindowEnds \cup {Seconds(10)} : e <= m

\* the -t of the base input, in seconds
BaseDuration == args.inputs[1].t

\* C18: the duration of the base input is ceil(max(10, latest window end of
\* a resolved clip) + 1): at least 11, strictly after the end of every
\* resolved clip's window, and 11 when the longest clip ends at 10
C18_BaseDuration ==
    compPc = "compiled" =>
        /\ args.inputs[1].f = "lavfi"
        /\ Seconds(BaseDuration) >= LatestEnd + Seconds(1)
        /\ Seconds(BaseDuration - 1) < LatestEnd + Seconds(1)
        /\ BaseDuration >= 11
        /\ \A e \in WindowEnds : Seconds(BaseDuration) > e
        /\ LatestEnd = Seconds(10) => BaseDuration = 11

\* a timeline whose longest resolved clip ends at 10 s was given 11 s
C18_Witness ==
    /\ compPc = "compiled"
    /\ Seconds(10) \in WindowEnds
    /\ LatestEnd = Seconds(10)
    /\ BaseDuration = 11

\* C19: for a timeline with zero clips (no tracks, empty tracks, or only
\* skipped clips) the compiler produces a valid argv that encodes exactly 10 s
\* of solid black video
NoResolvedClips == Len(ResolvedVideo) = 0 /\ Len(ResolvedAudio) = 0

\* a -map argument names a stream that exists: a bracketed name is a label
\* some chain of the filter graph produces and no chain consumes, a bare
\* name is a stream of an input
MapValid(a, m) ==
    IF m.bracket
      THEN /\ Producer(a.filtergraph, m.label) # 0
           /\ \A i \in 1..Len(a.filtergraph) :
                 a.filtergraph[i].kind = "overlay" =>
                     m.label \notin {a.filtergraph[i].base, a.filtergraph[i].over}
      ELSE m.label = ZeroV /\ Len(a.inputs) >= 1

MapsValid(a) == \A k \in 1..Len(a.maps) : MapValid(a, a.maps[k])

C19_EmptyTimelineBlack ==
    compPc = "compiled" /\ NoResolvedClips =>
        /\ MapsValid(args)
        /\ BaseDuration = 10
        /\ \A t \in {0, Seconds(5), Seconds(10)} : Composite(args, t) = Black

\* C20: for a timeline with zero resolved video clips (audio clips may
\* exist) the argv is a valid command whose video output is the black base
\* input for the full computed duration: the stream mapped as video is the
\* base input, and every stream named by a -map is an output label defined
\* in the filter graph or a valid input stream reference
C20_NoVideoMapsBase ==
    compPc = "compiled" /\ Len(ResolvedVideo) = 0 =>
        /\ args.maps[1].label = ZeroV
        /\ args.inputs[1].f = "lavfi"
        /\ Seconds(BaseDuration) >= LatestEnd + Seconds(1)
        /\ MapsValid(args)

(***************************************************************************)
(* Audio placement.  A chain atrim=start=in:end=out,asetpts=PTS-STARTPTS,  *)
(* adelay=<ms>:all=1 is heard from its delay on, for the trimmed length.   *)
(***************************************************************************)
\* a delay given in milliseconds, as a time
FromMs(m) == 2 * m

\* the audio chains of the compiled filter graph, in order
AudioParts(a) == SelectSeq(a.filtergraph, LAMBDA x : x.kind = "achain")

\* the chain is heard at time t
AudibleAt(part, t) ==
    FromMs(part.delayMs) <= t /\ t <= FromMs(part.delayMs) + (part.trimEnd - part.trimStart)

\* chain part is the chain of clip c: it reads c's own file, trims it to
\* [in, out] and delays it by floor(start * 1000) ms
AudioChainOf(a, part, c) ==
    /\ a.inputs[part.src + 1].i = c.path
    /\ part.trimStart = c.in
    /\ part.trimEnd = c.out
    /\ FromMs(part.delayMs) <= c.start
    /\ c.start < FromMs(part.delayMs + 1)

\* the times around the edges of the windows of the audio clips
AudioProbeTimes(ac) ==
    {t \in UNION {{ac[k].start - 2, ac[k].start - 1, ac[k].start, ac[k].start + 1,
                   ac[k].start + (ac[k].out - ac[k].in) - 1,
                   ac[k].start + (ac[k].out - ac[k].in),
                   ac[k].start + (ac[k].out - ac[k].in) + 1} : k \in 1..Len(ac)}
          \cup {0} : t >= 0}

FlooredWindow(c, t) ==
    FromMs(FloorMs(c.start)) <= t /\ t <= FromMs(FloorMs(c.start)) + (c.out - c.in)

MixParts(a) == SelectSeq(a.filtergraph, LAMBDA x : x.kind = "amix")

\* the -map arguments that name the mix output
AudioMaps(a) == SelectSeq(a.maps, LAMBDA m : m.label = AOut)

InSeq(x, q) == \E i \in 1..Len(q) : q[i] = x

\* C22: with at least one resolved audio clip the argv has exactly one mix
\* stage over all audio streams (inputs = their number, no normalization),
\* maps its output as the audio stream and sets the audio codec; with none it
\* disables audio and maps no audio stream; one audio stream is mixed like
\* any other number
C22_AudioMixPolicy ==
    compPc = "compiled" =>
        IF Len(ResolvedAudio) >= 1
          THEN /\ Len(MixParts(args)) = 1
               /\ MixParts(args)[1].inputs = Len(ResolvedAudio)
               /\ MixParts(args)[1].normalize = 0
               /\ MixParts(args)[1].ins = [k \in 1..Len(AudioParts(args)) |-> AudioParts(args)[k].out]
               /\ Len(AudioParts(args)) = Len(ResolvedAudio)
               /\ Len(AudioMaps(args)) = 1
               /\ AudioMaps(args)[1].bracket
               /\ MixParts(args)[1].out = AOut
               /\ InSeq("-c:a", args.audio) /\ InSeq("aac", args.audio)
               /\ ~InSeq("-an", args.audio)
          ELSE /\ Len(MixParts(args)) = 0
               /\ Len(AudioMaps(args)) = 0
               /\ Len(args.maps) = 1
               /\ args.audio = <<"-an">>

\* exactly one audio stream was compiled and it goes through the mix
C22_Witness ==
    /\ compPc = "compiled"
    /\ Len(ResolvedAudio) = 1
    /\ Len(MixParts(args)) = 1
    /\ MixParts(args)[1].inputs = 1
    /\ Len(AudioMaps(args)) = 1

Missing(ts, fs, i, j) == \A n \in 1..Len(fs) : fs[n].id # ts[i].clips[j].fileId

\* the timeline without the j-th clip of track i
RemoveClip(ts, i, j) ==
    [ts EXCEPT ![i].clips = SubSeq(@, 1, j - 1) \o SubSeq(@, j + 1, Len(@))]

\* the clips of the timeline whose file is among the resolved files
ResolvedCount ==
    Cardinality({<<i, j>> \in (1..Len(tracks)) \X (1..2) :
                    j <= Len(tracks[i].clips) /\ ~Missing(tracks, files, i, j)})

\* C24: a clip whose fileId is not among the resolved files never makes the
\* compilation fail: it adds no input, no chain, no overlay and nothing to
\* the duration, and the argv equals the argv of the timeline without it
C24_MissingClipSkipped ==
    compPc = "compiled" =>
        /\ args # NoArgs
        /\ Len(args.inputs) = 1 + ResolvedCount
        /\ \A i \in 1..Len(tracks) : \A j \in 1..Len(tracks[i].clips) :
              Missing(tracks, files, i, j) =>
                  /\ args = buildFfmpegCommand(RemoveClip(tracks, i, j), files, preset)
                  /\ \A e \in WindowEnds : Seconds(BaseDuration) > e

\* a timeline with a resolved clip and a longer clip of a missing file was
\* compiled: the missing clip left no trace
C24_Witness ==
    /\ compPc = "compiled"
    /\ \E i \in 1..Len(tracks) : \E j \in 1..Len(tracks[i].clips) :
          /\ Missing(tracks, files, i, j)
          /\ tracks[i].clips[j].start + (tracks[i].clips[j].out - tracks[i].clips[j].in) > Seconds(10)
          /\ args = buildFfmpegCommand(RemoveClip(tracks, i, j), files, preset)
    /\ ResolvedCount = 1
    /\ Len(args.inputs) = 2
    /\ BaseDuration = 11

\* the clips of one track type in enumeration order (tracks in order, the
\* clips of a track in order) whose file is among the resolved files
RECURSIVE InOrder(_, _, _, _)
InOrder(ts, fs, ty, i) ==
    IF i > Len(ts) THEN <<>>
    ELSE (IF ts[i].type = ty
            THEN SelectSeq(ts[i].clips, LAMBDA c : \E n \in 1..Len(fs) : fs[n].id = c.fileId)
            ELSE <<>>)
         \o InOrder(ts, fs, ty, i + 1)

\* the path of the first resolved file with the id
PathOf(fs, id) == fs[CHOOSE n \in 1..Len(fs) : fs[n].id = id /\ \A k \in 1..(n - 1) : fs[k].id # id].path

\* C25: with V resolved video clips and A resolved audio clips the argv has
\* exactly 1+V+A inputs: the black source at index 0, then one input per
\* video clip in enumeration order, then one per audio clip, a file used by
\* several clips being opened once per clip; and exactly V overlays
C25_InputsPerClip ==
    compPc = "compiled" =>
        LET v == InOrder(tracks, files, "video", 1)
            a == InOrder(tracks, files, "audio", 1)
        IN  /\ Len(args.inputs) = 1 + Len(v) + Len(a)
            /\ args.inputs[1].f = "lavfi"
            /\ \A k \in 1..Len(v) :
                  args.inputs[1 + k] = [f |-> "file", t |-> 0, i |-> PathOf(files, v[k].fileId)]
            /\ \A k \in 1..Len(a) :
                  args.inputs[1 + Len(v) + k] = [f |-> "file", t |-> 0, i |-> PathOf(files, a[k].fileId)]
            /\ Len(OverlayParts(args)) = Len(v)

\* one video clip and one audio clip of the same file A were compiled: two
\* extra inputs, both file A, and one overlay
C25_Witness ==
    /\ compPc = "compiled"
    /\ InOrder(tracks, files, "video", 1) = <<ClipAt0>>
    /\ InOrder(tracks, files, "audio", 1) = <<ClipAt0>>
    /\ Len(args.inputs) = 3
    /\ args.inputs[2].i = FileA.path /\ args.inputs[3].i = FileA.path
    /\ Len(OverlayParts(args)) = 1

\* the labels the graph of V video and A audio clips is to define
GraphLabels(V, A) ==
    {VLabel(k) : k \in 1..V} \cup {BaseLabel(k) : k \in 1..V}
      \cup {ALabel(V + k) : k \in 1..A} \cup (IF A > 0 THEN {AOut} ELSE {})

\* the labels a filter reads, as a sequence
Reads(part) ==
    IF part.kind = "overlay" THEN <<part.base, part.over>>
    ELSE IF part.kind = "amix" THEN part.ins
    ELSE <<>>

\* the positions of the graph that produce a label
ProducedAt(a, l) == {i \in 1..Len(a.filtergraph) : a.filtergraph[i].out = l}

\* the reads of a label: <<i, n>> is the n-th operand of filter i
ConsumedAt(a, l) ==
    {<<i, n>> \in (1..Len(a.filtergraph)) \X (1..(MaxTracks * 2 + 2)) :
        n <= Len(Reads(a.filtergraph[i])) /\ Reads(a.filtergraph[i])[n] = l}

\* the -map arguments that name a label
MappedAt(a, l) == {k \in 1..Len(a.maps) : a.maps[k].label = l}

\* a chain trims and places its own clip and reads the input that holds the
\* clip's file
ChainReadsOwnInput(a, part, c, k) ==
    /\ part.trimStart = c.in /\ part.trimEnd = c.out
    /\ part.src = k
    /\ part.src + 1 \in 1..Len(a.inputs)
    /\ a.inputs[part.src + 1].i = PathOf(files, c.fileId)

\* C30: the compiled filter graph is well-formed: the labels v1..vV,
\* base1..baseV, a(V+1)..a(V+A) and aout are pairwise distinct, each chain
\* reads the input index at which the file of its own clip was appended, and
\* every label is produced exactly once and consumed exactly once, by a
\* later filter or by a -map argument
C30_GraphWellFormed ==
    compPc = "compiled" =>
        LET v == InOrder(tracks, files, "video", 1)
            a == InOrder(tracks, files, "audio", 1)
            V == Len(v)
            A == Len(a)
            vchains == SelectSeq(args.filtergraph, LAMBDA x : x.kind = "vchain")
            achains == AudioParts(args)
        IN  /\ Cardinality(GraphLabels(V, A)) = 2 * V + A + (IF A > 0 THEN 1 ELSE 0)
            /\ Len(vchains) = V /\ Len(achains) = A
            /\ \A k \in 1..V :
                  /\ ChainReadsOwnInput(args, vchains[k], v[k], k)
                  /\ vchains[k].out = VLabel(k)
            /\ \A k \in 1..A :
                  /\ ChainReadsOwnInput(args, achains[k], a[k], V + k)
                  /\ achains[k].out = ALabel(V + k)
            /\ \A i \in 1..Len(args.filtergraph) :
                  /\ args.filtergraph[i].out \in GraphLabels(V, A)
                  /\ \A n \in 1..Len(Reads(args.filtergraph[i])) :
                        Reads(args.filtergraph[i])[n] \in GraphLabels(V, A) \cup {ZeroV}
            /\ \A l \in GraphLabels(V, A) :
                  /\ Cardinality(ProducedAt(args, l)) = 1
                  /\ Cardinality(ConsumedAt(args, l)) + Cardinality(MappedAt(args, l)) = 1
                  /\ \A p \in ProducedAt(args, l) : \A r \in ConsumedAt(args, l) : p < r[1]

\* a graph with two video chains and two audio chains of different files was
\* compiled: the audio chains read inputs 3 and 4
C30_Witness ==
    /\ compPc = "compiled"
    /\ Len(InOrder(tracks, files, "video", 1)) = 2
    /\ Len(InOrder(tracks, files, "audio", 1)) = 2
    /\ AudioParts(args)[1].src = 3 /\ AudioParts(args)[2].src = 4
    /\ args.inputs[2].i # args.inputs[4].i
    /\ MappedAt(args, BaseLabel(2)) = {1}
    /\ MappedAt(args, AOut) = {2}

(***************************************************************************)
(* Claims about the retries (specification SpecRetry)                      *)
(***************************************************************************)
\* C27: the message a retry puts on the render queue carries the job's
\* previous retryCount plus one, the value retryFailedJob returns
C27_RetryCountIncremented ==
    retryPc = "returned" =>
        /\ retryResult.retryCount = jobData.retryCount + 1
        /\ sentBody.retryCount = retryResult.retryCount

\* the job is on the render queue or on the dead-letter queue
InSomeQueue == mainQueue # <<>> \/ dlq # <<>>

\* the dead-letter messages present when the call began are still there
DlqLeftInPlace ==
    /\ Len(dlq) >= Len(dlqAtCall)
    /\ SubSeq(dlq, 1, Len(dlqAtCall)) = dlqAtCall

\* C28: retryFailedJob deletes the dead-letter message only after the job
\* was re-enqueued; when the re-enqueue fails the dead-letter message stays
\* and the error propagates, so the job is always in one of the two queues
C28_RetryKeepsJob ==
    retryPc # "none" =>
        /\ removed => enqueued
        /\ (retryPc \in {"delete", "returned"}) => enqueued
        /\ (retryPc = "enqueue") => ~removed /\ DlqLeftInPlace
        /\ (retryPc = "threw" /\ ~enqueued) => ~removed /\ DlqLeftInPlace
        /\ InSomeQueue

\* a second retry failed at the re-enqueue of a configured queue after the
\* first one had moved the job: the message is still dead-lettered
C28_Witness ==
    /\ retryPc = "threw"
    /\ RENDER_QUEUE_URL
    /\ retries = 2
    /\ ~enqueued /\ ~removed
    /\ dlq = dlqAtCall /\ dlq # <<>>
    /\ mainQueue = <<>>

(***************************************************************************)
(* Claims about the fleet (specification SpecFleet)                        *)
(***************************************************************************)
\* the workers that are processing the job
Processing == {w \in Workers : fleetPc[w] = "processing"}

\* the message is delivered to worker w in this step
DeliveredTo(w) == qReceives' = qReceives + 1 /\ receiver' = w

\* C26: when an encode outlasts the visibility timeout the queue redelivers
\* the message while the first attempt still runs, and the worker that
\* receives it starts processing the same job: no lease or idempotency key
\* excludes two workers on one job (they meet only through a redelivery)
C26_RedeliveryStartsDuplicate ==
    /\ [](Cardinality(Processing) >= 2 => qReceives >= 2)
    /\ [][\A w \in Workers :
             (fleetPc[w] = "poll" /\ DeliveredTo(w)) =>
                 /\ fleetPc'[w] = "processing"
                 /\ \A o \in Workers \ {w} : fleetPc'[o] = fleetPc[o] /\ encodeLeft'[o] = encodeLeft[o]]_vars

\* two workers process the job at once: the first one's encode is still
\* running after the visibility timeout, the second got the redelivery
C26_Witness ==
    /\ Cardinality(Processing) = 2
    /\ qReceives = 2
    /\ \E w \in Processing : w # receiver /\ encodeLeft[w] > 0
    /\ fleetPc[receiver] = "processing"

(***************************************************************************)
(* Further claims about the encoder run (specification SpecExec)           *)
(***************************************************************************)
\* the close handler has called cacheSet with the terminal record
TerminalWriteAttempted == closePc # "none"

\* no cacheSet of the run is still suspended or in flight
WritesOver == importWait = <<>> /\ \A k \in 1..Len(conn) : conn[k] = <<>>

\* C29: whenever a run with a job id has settled, the terminal record was
\* written, or its write attempted, before; on every termination path,
\* a failure to start the encoder included, so that a finished render whose
\* terminal record landed does not end with a running record in the store
C29_TerminalBeforeSettle ==
    hasJobId =>
        /\ settled \in {"resolved", "rejected"} => TerminalWriteAttempted
        /\ (settled \in {"resolved", "rejected"} /\ WritesOver /\ HasTerminal(published))
              => IsTerminal(store)

============================================================
